---- MODULE Spec2Model ----
(***************************************************************************)
(* CrowdSense: the frame-processing and temporal-aggregation pipeline.     *)
(*                                                                         *)
(*   app          the fields of CrowdSenseApp (src/app.py)                 *)
(*   video_thread the fields and program counter of VideoFrameThread       *)
(*   yolo_thread  the fields and program counter of YoloDetectionThread    *)
(*   capture      the cv2.VideoCapture object behind app.cap               *)
(*   events       the signals queued to the GUI thread                     *)
(*   download_thread  the ModelDownloadThread created by download_model    *)
(*   model_files  the models whose weight file exists locally              *)
(*   ui           the GUI thread: the handler it is blocked in             *)
(*   ghost        history variables used only to state properties          *)
(*                                                                         *)
(* Handlers are operators from a world record (the objects above) to       *)
(* the world after the handler, so that a handler calling another one is   *)
(* operator application, as in the source.                                 *)
(***************************************************************************)
EXTENDS Integers, Sequences, FiniteSets, TLC

VARIABLES app, video_thread, yolo_thread, capture, events, download_thread,
          model_files, ui, ghost

vars == <<app, video_thread, yolo_thread, capture, events, download_thread,
          model_files, ui, ghost>>

-----------------------------------------------------------------------------
(* Bounds of the model *)

\* the largest raw detection count of a frame
MaxCount == 4
\* the smoothing slider is moved to 1..MaxWindow; under the default window
\* at most MaxWindow raw counts are pushed
MaxWindow == 2
\* the crowd threshold slider is moved to 3..MaxThreshold
MaxThreshold == 3
\* frames of a video stream
MaxFrames == 2
\* alert records kept before detection results stop being explored
\* fixed-point resolution of the float32 heatmap cells: 1.0 is Unit
Unit == 8
\* heatmap updates with detections explored per accumulator
MaxAggFrames == 2
\* the side of a video frame in pixels
FrameSide == 5
\* boxes in one call of update_heatmap
MaxBoxes == 2
\* people in a frame of a sparsely populated video
MaxSparseCount == 1
\* frames of a video whose frames all differ
MaxBurst == 3
\* signals queued to the GUI thread and not yet handled
MaxEvents == 2
\* calls of load_video_from_path
MaxLoads == 2
\* calls of update_heatmap with detections between two reallocations
MaxHeatUpdates == 6

\* selections of another model in the model combo box
MaxSelects == 2

\* the confidence slider and the detector's confidences stay within
\* MaxConfidenceStep hundredths of the default threshold
MaxConfidenceStep == 1

-----------------------------------------------------------------------------
(* Program constants *)

DefaultWindow == 24
DefaultThreshold == 10
MinThreshold == 3
DefaultFrameInterval == 33
MaxIncrement == 250
heatmap_decay_pct == 99
heatmap_intensity_pct == 60
heatmap_scale_factor_pct == 20
heatmap_neighbor_radius == 4
NeighborWeightPct == 70

\* float('inf'): greater than every count
INF == MaxCount + 1

\* the keys of available_models (src/config.py 90-108), three of them; a
\* weight file is named by the key of its model
available_models == {"YOLOv8n", "YOLOv8s", "YOLOv8m"}
DefaultModel == "YOLOv8n"

\* self.model of YoloDetectionThread is None
NoModel == "None"

\* confidences and the confidence threshold, in hundredths
DefaultConfidence == 40

-----------------------------------------------------------------------------
(* Helpers *)

Min(a, b) == IF a < b THEN a ELSE b
Max(a, b) == IF a > b THEN a ELSE b

RECURSIVE SumFirst(_, _)
SumFirst(s, n) == IF n = 0 THEN 0 ELSE s[n] + SumFirst(s, n - 1)
SumSeq(s) == SumFirst(s, Len(s))

RECURSIVE MaxFirst(_, _)
MaxFirst(s, n) == IF n = 0 THEN 0 ELSE Max(s[n], MaxFirst(s, n - 1))
MaxSeq(s) == MaxFirst(s, Len(s))

\* s[-n:] for n >= 1
LastN(s, n) == IF Len(s) <= n THEN s ELSE SubSeq(s, Len(s) - n + 1, Len(s))

\* round(np.mean(xs)) for a non-empty xs of non-negative integers: Python and
\* numpy round half to even
RoundMean_trunc(total, n) == total \div n
RoundMean(total, n) ==
    LET q == total \div n
        r == total % n
    IN  IF 2 * r < n THEN q
        ELSE IF 2 * r > n THEN q + 1
        ELSE IF q % 2 = 0 THEN q ELSE q + 1

\* deque(maxlen).append
DequeAppend(d, maxlen, x) ==
    IF Len(d) >= maxlen THEN Append(Tail(d), x) ELSE Append(d, x)

-----------------------------------------------------------------------------
(* Frames and boxes *)

NoFrame == [id |-> 0, h |-> 0, w |-> 0]
Frame(i, h, w) == [id |-> i, h |-> h, w |-> w]

-----------------------------------------------------------------------------
(* HeatmapEngine: update_heatmap (src/app.py 1418-1531).                   *)
(* A float32 grid is a row-major sequence of fixed-point cells, 1.0 being  *)
(* Unit; every product and quotient is truncated to the grid resolution.   *)

NoneAcc == [h |-> 0, w |-> 0, g |-> <<>>]
IsNone(acc) == acc.h = 0
\* np.zeros((low_h, low_w), dtype=np.float32)
Zeros(low_h, low_w) == [h |-> low_h, w |-> low_w, g |-> [c \in 1..(low_h * low_w) |-> 0]]

CellY(c, low_w) == (c - 1) \div low_w
CellX(c, low_w) == (c - 1) % low_w

\* int(dim * scale_factor)
LowDim(dim) == (dim * heatmap_scale_factor_pct) \div 100

\* self.heatmap_accumulator *= self.heatmap_decay
Decay_none(g) == g
Decay(g) == [c \in DOMAIN g |-> (g[c] * heatmap_decay_pct) \div 100]

\* max(0.0, 1.0 - dist / radius) * 0.7 with dist = sqrt(dist_sq), in cells
\* of resolution 1/Unit: the largest v with v/Unit <= 0.7 * (1 - dist/radius)
Intensity(dist_sq) ==
    LET top == NeighborWeightPct * Unit
        r2  == heatmap_neighbor_radius * heatmap_neighbor_radius
        ok(v) == /\ 100 * v <= top
                 /\ dist_sq * top * top <= r2 * (top - 100 * v) * (top - 100 * v)
    IN  CHOOSE v \in 0..Unit : ok(v) /\ \A u \in (v + 1)..Unit : ~ok(u)

\* one iteration of "for box in boxes": the foot point and its neighbours
SplatBox(cur, low_h, low_w, box) ==
    LET foot_x == Max(0, Min(low_w - 1, ((box[1] + box[3]) * heatmap_scale_factor_pct) \div 200))
        foot_y == Max(0, Min(low_h - 1, (box[4] * heatmap_scale_factor_pct) \div 100))
        radius == heatmap_neighbor_radius
    IN  [c \in DOMAIN cur |->
            LET y == CellY(c, low_w)
                x == CellX(c, low_w)
                dist_sq == (x - foot_x) * (x - foot_x) + (y - foot_y) * (y - foot_y)
            IN  IF x = foot_x /\ y = foot_y THEN Unit
                ELSE IF dist_sq <= radius * radius
                     THEN Max(cur[c], Intensity(dist_sq))
                     ELSE cur[c]]

RECURSIVE Splat(_, _, _, _)
Splat(cur, low_h, low_w, boxes) ==
    IF boxes = <<>> THEN cur
    ELSE Splat(SplatBox(cur, low_h, low_w, Head(boxes)), low_h, low_w, Tail(boxes))

\* cv2.getGaussianKernel(ksize, 0), as integer weights and their total
Kernel7 == [taps |-> <<2, 7, 14, 18, 14, 7, 2>>, total |-> 64]
Kernel17 ==
    [taps |-> <<3, 7, 16, 31, 53, 81, 109, 130, 138, 130, 109, 81, 53, 31, 16, 7, 3>>,
     total |-> 998]
Kernel31 ==
    [taps |-> <<1, 2, 3, 4, 7, 11, 16, 22, 30, 39, 48, 58, 67, 74, 78, 80, 78, 74, 67,
                58, 48, 39, 30, 22, 16, 11, 7, 4, 3, 2, 1>>,
     total |-> 1000]

\* cv2.BORDER_REFLECT_101 on an axis of n cells
Reflect101(i, n) ==
    IF n = 1 THEN 0
    ELSE LET p == 2 * (n - 1)
             m == i % p
         IN  IF m < n THEN m ELSE p - m

\* total weight with which source cell xp reaches target cell x on an axis
\* of n cells (on an axis of one cell every tap reflects onto it)
TapWeight(k, x, xp, n) ==
    LET r == (Len(k.taps) - 1) \div 2
    IN  IF n = 1 THEN k.total
        ELSE SumSeq([i \in 1..Len(k.taps) |->
                        IF Reflect101(x + i - 1 - r, n) = xp THEN k.taps[i] ELSE 0])

\* cv2.GaussianBlur(grid, (ksize, ksize), 0)
GaussianBlur(g, low_h, low_w, k) ==
    [c \in DOMAIN g |->
        SumSeq([d \in DOMAIN g |->
            TapWeight(k, CellY(c, low_w), CellY(d, low_w), low_h)
            * TapWeight(k, CellX(c, low_w), CellX(d, low_w), low_w) * g[d]])
        \div (k.total * k.total)]

\* current_heatmap /= max_val, or fill(0)
NormalizeCurrent(g) ==
    LET max_val == MaxSeq(g)
    IN  IF max_val > 0 THEN [c \in DOMAIN g |-> (g[c] * Unit) \div max_val]
        ELSE [c \in DOMAIN g |-> 0]

\* lines 1522-1526: rescale by the max when it exceeds 1.0, then clamp at 0
CapAccumulator_nocap(g) == [c \in DOMAIN g |-> Max(g[c], 0)]
CapAccumulator(g) ==
    LET max_accum_val == MaxSeq(g)
        capped == IF max_accum_val > Unit
                  THEN [c \in DOMAIN g |-> (g[c] * Unit) \div max_accum_val]
                  ELSE g
    IN  [c \in DOMAIN capped |-> Max(capped[c], 0)]

\* the transient low-resolution grid of one call (lines 1455-1510)
CurrentHeatmap(low_h, low_w, boxes) ==
    LET splat == Splat(Zeros(low_h, low_w).g, low_h, low_w, boxes)
    IN  IF boxes # <<>>
        THEN NormalizeCurrent(
                 GaussianBlur(
                     GaussianBlur(
                         GaussianBlur(splat, low_h, low_w, Kernel7),
                         low_h, low_w, Kernel17),
                     low_h, low_w, Kernel31))
        ELSE splat

\* lines 1434-1439
ResolutionChanged(acc, low_h, low_w) ==
    ~IsNone(acc) /\ (acc.h # low_h \/ acc.w # low_w)

\* TRUE when update_heatmap returns a density map rather than None
ReturnsDensity(frame) ==
    frame # NoFrame /\ LowDim(frame.h) > 0 /\ LowDim(frame.w) > 0

\* line 1448: the count restarts with a reallocated aggregate accumulator
AggregateCountStart_kept(a, realloc) == a.aggregate_frame_count
AggregateCountStart(a, realloc) == IF realloc THEN 0 ELSE a.aggregate_frame_count

update_heatmap(w, frame, boxes) ==
    IF ~ReturnsDensity(frame) THEN w
    ELSE
      LET low_h == LowDim(frame.h)
          low_w == LowDim(frame.w)
          a == w.app
          resolution_changed == ResolutionChanged(a.heatmap_accumulator, low_h, low_w)
          live0 == IF IsNone(a.heatmap_accumulator) \/ resolution_changed
                   THEN Zeros(low_h, low_w) ELSE a.heatmap_accumulator
          realloc == IsNone(a.aggregate_heatmap_accumulator) \/ resolution_changed
          agg0 == IF realloc THEN Zeros(low_h, low_w) ELSE a.aggregate_heatmap_accumulator
          count0 == AggregateCountStart(a, realloc)
          decayed == Decay(live0.g)
          current_heatmap == CurrentHeatmap(low_h, low_w, boxes)
          detections_in_frame == boxes # <<>>
          added == [c \in DOMAIN decayed |->
                      decayed[c] + (current_heatmap[c] * heatmap_intensity_pct) \div 100]
          agg1 == IF detections_in_frame
                  THEN [c \in DOMAIN agg0.g |-> agg0.g[c] + current_heatmap[c]]
                  ELSE agg0.g
          count1 == IF detections_in_frame THEN count0 + 1 ELSE count0
      IN  [w EXCEPT !.app.heatmap_accumulator = [live0 EXCEPT !.g = CapAccumulator(added)],
                    !.app.aggregate_heatmap_accumulator = [agg0 EXCEPT !.g = agg1],
                    !.app.aggregate_frame_count = count1]

\* the heatmap part of process_frame_with_heatmap (lines 1346-1354); the
\* rendering of the returned density onto pixels is not modelled
process_frame_with_heatmap(w, frame, boxes) ==
    IF frame = NoFrame THEN w
    ELSE IF w.app.heatmap_enabled THEN update_heatmap(w, frame, boxes)
    ELSE w

-----------------------------------------------------------------------------
(* The world a handler runs in *)

World == [app |-> app, vt |-> video_thread, yt |-> yolo_thread, cap |-> capture,
          ev |-> events, dl |-> download_thread, files |-> model_files]

Becomes(w) ==
    /\ app' = w.app
    /\ video_thread' = w.vt
    /\ yolo_thread' = w.yt
    /\ capture' = w.cap
    /\ events' = w.ev
    /\ download_thread' = w.dl
    /\ model_files' = w.files

\* QThread.isRunning(): from start() until run() returns
isRunning(thread) == thread.pc # "idle"

\* self.cap is not None and self.cap.isOpened()
CapOpened(w) == w.app.cap /\ w.cap.opened

-----------------------------------------------------------------------------
(* ThresholdAlertEngine *)

\* update_crowd_alert_status (src/app.py 1078-1142).  The branch for
\* alert_active calls format_time_for_filename as a global name (line
\* 1112); the only definition is an attribute of the class (line 1067), so
\* the call raises NameError after threshold_alert_active was assigned and
\* before the record is appended (line 1118)
update_crowd_alert_status(w, alert_active, count) ==
    IF w.app.threshold_alert_active = alert_active THEN w
    ELSE IF alert_active
    THEN [w EXCEPT !.app.threshold_alert_active = TRUE,
                   !.app.raised = TRUE]
    ELSE [w EXCEPT !.app.threshold_alert_active = FALSE]

\* check_threshold_crossing (src/app.py 2303-2310)
check_threshold_crossing(w) ==
    LET should_alert_be_active ==
            w.app.smoothed_people_count > w.app.crowd_size_threshold
    IN  IF should_alert_be_active # w.app.threshold_alert_active
        THEN update_crowd_alert_status(w, should_alert_be_active,
                                       w.app.smoothed_people_count)
        ELSE w

-----------------------------------------------------------------------------
(* Timeline recorder: update_people_graph (src/app.py 1534-1548); times    *)
(* are kept in milliseconds                                                *)

update_people_graph(w, count) ==
    IF ~CapOpened(w) \/ w.app.paused THEN w
    ELSE LET t == w.app.video_time_ms
             td == w.app.time_data
         IN  IF td = <<>> \/ t > td[Len(td)]
             THEN [w EXCEPT !.app.time_data = Append(@, t),
                            !.app.people_data = Append(@, count)]
             ELSE [w EXCEPT !.app.people_data[Len(td)] = count]

-----------------------------------------------------------------------------
(* PeakTracker (src/app.py 2271-2281) *)

TrackPeak_zero(w) ==
    LET c == w.app.smoothed_people_count
        w1 == IF c > w.app.peak_count THEN [w EXCEPT !.app.peak_count = c] ELSE w
    IN  IF c < w1.app.offpeak_count THEN [w1 EXCEPT !.app.offpeak_count = c] ELSE w1
TrackPeak(w) ==
    LET c == w.app.smoothed_people_count
        w1 == IF c > w.app.peak_count THEN [w EXCEPT !.app.peak_count = c] ELSE w
    IN  IF c > 0 /\ c < w1.app.offpeak_count
        THEN [w1 EXCEPT !.app.offpeak_count = c]
        ELSE w1

-----------------------------------------------------------------------------
(* CountSmoother and the detection-result handler *)

\* lines 2241-2253: push a raw count and recompute the rounded mean
PushCount(w, people_count) ==
    LET hist == DequeAppend(w.app.people_count_history, w.app.smoothing_window_size,
                            people_count)
    IN  [w EXCEPT !.app.people_count_history = hist,
                  !.app.smoothed_people_count = RoundMean(SumSeq(hist), Len(hist))]

\* display_detection_results (src/app.py 2232-2300)
display_detection_results(w, frame, people_count, boxes) ==
    IF frame = NoFrame THEN w
    ELSE
      LET w1 == PushCount([w EXCEPT !.app.last_detected_boxes = boxes], people_count)
          w2 == IF w1.app.crowd_detection_enabled THEN check_threshold_crossing(w1) ELSE w1
          w3 == update_people_graph(w2, w2.app.smoothed_people_count)
          w4 == TrackPeak(w3)
          w5 == process_frame_with_heatmap(w4, frame, boxes)
      IN  IF w2.app.raised THEN w2
          ELSE [w5 EXCEPT !.app.displayed_frame = frame]

\* on_smoothing_window_changed (src/app.py 1040-1065)
on_smoothing_window_changed(w, value) ==
    LET current_history == w.app.people_count_history
        hist == LastN(current_history, value)
        w1 == [w EXCEPT !.app.smoothing_window_size = value,
                        !.app.people_count_history = hist,
                        !.app.smoothed_people_count =
                            IF Len(hist) > 0 THEN RoundMean(SumSeq(hist), Len(hist)) ELSE 0]
    IN  IF w1.app.crowd_detection_enabled THEN check_threshold_crossing(w1) ELSE w1

\* on_crowd_detection_toggled (src/app.py 1005-1027)
on_crowd_detection_toggled_keeps(w, enabled) ==
    LET w1 == [w EXCEPT !.app.crowd_detection_enabled = enabled]
    IN  IF ~enabled THEN w1
        ELSE IF CapOpened(w1) /\ ~w1.app.paused
             THEN update_people_graph(w1, w1.app.smoothed_people_count)
             ELSE w1
on_crowd_detection_toggled(w, enabled) ==
    LET w1 == [w EXCEPT !.app.crowd_detection_enabled = enabled]
    IN  IF ~enabled
        THEN [update_crowd_alert_status(w1, FALSE, 0) EXCEPT
                  !.app.threshold_alert_active = FALSE]
        ELSE IF CapOpened(w1) /\ ~w1.app.paused
             THEN update_people_graph(w1, w1.app.smoothed_people_count)
             ELSE w1

\* on_crowd_size_threshold_changed (src/app.py 1030-1037)
on_crowd_size_threshold_changed(w, value) ==
    LET w1 == update_crowd_alert_status(
                  [w EXCEPT !.app.crowd_size_threshold = value], FALSE, 0)
    IN  IF w1.app.crowd_detection_enabled /\ CapOpened(w1) /\ ~w1.app.paused
        THEN update_people_graph(w1, w1.app.smoothed_people_count)
        ELSE w1

\* on_heatmap_toggled (src/app.py 1615-1636)
on_heatmap_toggled(w, enabled) ==
    LET w1 == [w EXCEPT !.app.heatmap_enabled = enabled]
    IN  IF w1.app.paused /\ w1.app.current_frame # NoFrame
        THEN [process_frame_with_heatmap(w1, w1.app.current_frame,
                                         w1.app.last_detected_boxes)
                 EXCEPT !.app.displayed_frame = w1.app.current_frame]
        ELSE w1

-----------------------------------------------------------------------------
(* Thread objects as seen from the GUI thread *)

\* VideoFrameThread.pause
vt_pause(w, p) == [w EXCEPT !.vt.paused = p]

\* VideoFrameThread.set_capture(self.cap)
vt_set_capture(w) == [w EXCEPT !.vt.cap = w.app.cap]

\* QThread.start(): nothing when the thread is already running
vt_start(w) == IF isRunning(w.vt) THEN w ELSE [w EXCEPT !.vt.pc = "started"]
yt_start(w) == IF isRunning(w.yt) THEN w ELSE [w EXCEPT !.yt.pc = "started"]

\* the first statement of VideoFrameThread.stop / YoloDetectionThread.stop
vt_clear_running(w) == [w EXCEPT !.vt.running = FALSE]
yt_clear_running(w) == [w EXCEPT !.yt.running = FALSE]

\* QThread.wait() has returned: the thread's run() has returned
VideoThreadJoined(w) == ~isRunning(w.vt)
YoloThreadJoined(w) == ~isRunning(w.yt)

\* the world when wait() returns, for handlers taken as one step
vt_wait(w) == [w EXCEPT !.vt.pc = "idle"]

\* YoloDetectionThread.set_model_path
yt_set_model_path(w, model_path) ==
    [w EXCEPT !.yt.model_path = model_path, !.yt.model = FALSE, !.yt.model_file = NoModel]

\* self.yolo_thread.set_model_path(self.model_path) (src/app.py 1686, 1749,
\* 1840): the world is evaluated once and both objects are read from it
set_model_path(w) ==
    CHOOSE w2 \in {yt_set_model_path(w1, w1.app.model_path) : w1 \in {w}} : TRUE

\* YoloDetectionThread.add_frame (src/core/threads.py 109-111)
add_frame_queueing(w, frame) ==
    IF frame # NoFrame /\ ~w.yt.processing
    THEN [w EXCEPT !.yt.frame_queue = Append(@, frame)]
    ELSE w
add_frame(w, frame) ==
    IF frame # NoFrame /\ ~w.yt.processing
    THEN [w EXCEPT !.yt.frame_queue = <<frame>>]
    ELSE w

-----------------------------------------------------------------------------
(* Playback handlers of CrowdSenseApp *)

\* on_video_ended (src/app.py 2113-2129)
on_video_ended(w) ==
    [w EXCEPT !.app.paused = TRUE,
              !.app.end_playback_label = TRUE,
              !.app.play_button = FALSE,
              !.app.pause_button = FALSE,
              !.app.stop_button = TRUE,
              !.app.restart_button = TRUE]

\* pause_video (src/app.py 1971-1989)
pause_video(w) ==
    IF ~CapOpened(w) THEN w
    ELSE IF ~w.app.paused
    THEN [vt_pause(w, TRUE) EXCEPT !.app.paused = TRUE,
                                   !.app.play_button = TRUE,
                                   !.app.pause_button = FALSE]
    ELSE [vt_pause(w, FALSE) EXCEPT !.app.paused = FALSE,
                                    !.app.play_button = FALSE,
                                    !.app.pause_button = TRUE,
                                    !.app.end_playback_label = FALSE,
                                    !.app.last_frame_time = 1]

\* start_video, resuming a paused video (src/app.py 1939-1947); starting a
\* source from the dropdown is load_video_from_path
start_video(w) ==
    IF CapOpened(w) /\ w.app.paused
    THEN [vt_pause(w, FALSE) EXCEPT !.app.paused = FALSE,
                                    !.app.play_button = FALSE,
                                    !.app.pause_button = TRUE,
                                    !.app.end_playback_label = FALSE,
                                    !.app.last_frame_time = 1]
    ELSE w

\* process_video_frame (src/app.py 2150-2183)
process_video_frame(w, frame) ==
    IF frame = NoFrame THEN w
    ELSE
      LET increment == Min(w.app.frame_interval, MaxIncrement)
          w1 == IF ~w.app.paused
                THEN [w EXCEPT !.app.video_time_ms =
                                   IF w.app.last_frame_time > 0 THEN @ + increment ELSE @,
                               !.app.last_frame_time = 1]
                ELSE w
          w2 == [w1 EXCEPT !.app.current_frame = frame]
      IN  IF w2.app.yolo_ready /\ w2.yt.model
          THEN add_frame(w2, frame)
          ELSE [process_frame_with_heatmap(w2, frame, <<>>)
                   EXCEPT !.app.displayed_frame = frame]

\* on_model_loaded (src/app.py 1786-1802)
on_model_loaded_ready(w, success) ==
    LET w1 == [w EXCEPT !.app.yolo_ready = TRUE]
    IN  IF success /\ w1.app.paused /\ w1.app.current_frame # NoFrame
        THEN add_frame(w1, w1.app.current_frame)
        ELSE w1
on_model_loaded(w, success) ==
    IF success
    THEN LET w1 == [w EXCEPT !.app.yolo_ready = TRUE]
         IN  IF w1.app.paused /\ w1.app.current_frame # NoFrame
             THEN add_frame(w1, w1.app.current_frame)
             ELSE w1
    ELSE [w EXCEPT !.app.yolo_ready = FALSE]

\* delivery of a queued signal to its slot on the GUI thread (connections
\* at src/app.py 69-75)
Deliver(w, signal) ==
    CASE signal.sig = "frame_ready" -> process_video_frame(w, signal.frame)
      [] signal.sig = "video_ended" -> on_video_ended(w)
      [] signal.sig = "model_loaded" -> on_model_loaded(w, signal.success)
      [] signal.sig = "detection_ready" ->
             display_detection_results(w, signal.frame, signal.count, signal.boxes)

\* QApplication.processEvents(): the slots of the signals queued so far run
\* inside the calling handler
RECURSIVE DeliverAll(_)
DeliverAll(w) ==
    IF w.ev = <<>> \/ w.app.raised THEN w
    ELSE DeliverAll(Deliver([w EXCEPT !.ev = Tail(@)], Head(w.ev)))

\* stop_video up to the join (src/app.py 1995-2000)
stop_video_request(w) ==
    IF isRunning(w.vt)
    THEN vt_clear_running([vt_pause(w, TRUE) EXCEPT !.app.paused = TRUE])
    ELSE w

\* stop_video after the join, up to its processEvents (src/app.py 2004-2105)
stop_video_reset(w) ==
    [w EXCEPT !.yt.frame_queue = <<>>,
              !.cap.opened = IF w.app.cap THEN FALSE ELSE @,
              !.app.cap = FALSE,
              !.app.paused = FALSE,
              !.app.current_frame = NoFrame,
              !.app.displayed_frame = NoFrame,
              !.app.last_detected_boxes = <<>>,
              !.app.people_count_history = <<>>,
              !.app.smoothed_people_count = 0,
              !.app.video_time_ms = 0,
              !.app.last_frame_time = 0,
              !.app.end_playback_label = FALSE,
              !.app.heatmap_accumulator = NoneAcc,
              !.app.aggregate_heatmap_accumulator = NoneAcc,
              !.app.aggregate_frame_count = 0,
              !.app.people_data = <<>>,
              !.app.time_data = <<>>,
              !.app.peak_count = 0,
              !.app.offpeak_count = INF,
              !.app.threshold_alert_active = FALSE,
              !.app.threshold_history = <<>>,
              !.app.heatmap_enabled = FALSE,
              !.app.crowd_detection_enabled = FALSE,
              !.app.toggles_enabled = FALSE,
              !.app.play_button = TRUE,
              !.app.pause_button = FALSE,
              !.app.stop_button = FALSE,
              !.app.restart_button = FALSE]

\* stop_video after the join (src/app.py 2004-2110), processEvents at 2108
stop_video_joined(w) == DeliverAll(stop_video_reset(w))

\* the world when the join of stop_video returns, for the handler taken as
\* one step: wait() returns once the reader loop has exited
stop_video_joining(w) ==
    IF isRunning(w.vt) THEN vt_wait(stop_video_request(w)) ELSE w

\* stop_video as one step (src/app.py 1992-2110)
stop_video(w) == stop_video_joined(stop_video_joining(w))

\* restart_video up to the join (src/app.py 1150-1163); the locals it keeps
RestartLocals(w) ==
    [video_was_at_end |-> w.app.end_playback_label,
     was_paused |-> w.app.paused,
     video_was_running |-> isRunning(w.vt)]
restart_video_request(w) ==
    LET w1 == vt_pause([w EXCEPT !.app.end_playback_label = FALSE,
                                 !.app.paused = TRUE], TRUE)
    IN  IF isRunning(w1.vt) THEN vt_clear_running(w1) ELSE w1

\* lines 1226-1264: the first frame is run through the model on the GUI
\* thread; det is what the detector returns for it (ok = FALSE: it raises)
RestartFirstFrame(w, first_frame, det) ==
    IF w.app.yolo_ready /\ w.yt.model
    THEN IF det.ok
         THEN LET w1 == [w EXCEPT !.app.last_detected_boxes = det.boxes,
                                  !.app.people_count_history = <<det.count>>,
                                  !.app.smoothed_people_count = det.count]
                  w2 == update_people_graph(w1, w1.app.smoothed_people_count)
                  w3 == IF w2.app.crowd_detection_enabled
                        THEN check_threshold_crossing(w2) ELSE w2
              IN  IF w3.app.raised
                  THEN [w3 EXCEPT !.app.raised = FALSE]
                  ELSE process_frame_with_heatmap(w3, first_frame, det.boxes)
         ELSE w
    ELSE [w EXCEPT !.app.last_detected_boxes = <<>>]

\* restart_video after the join (src/app.py 1171-1312)
restart_video_joined(w, loc, det) ==
    LET w1 == [w EXCEPT !.cap.pos = 0,
                        !.app.video_time_ms = 0,
                        !.app.last_frame_time = 1,
                        !.app.people_data = <<>>,
                        !.app.time_data = <<>>,
                        !.app.heatmap_accumulator = NoneAcc,
                        !.app.aggregate_heatmap_accumulator = NoneAcc,
                        !.app.aggregate_frame_count = 0,
                        !.app.threshold_alert_active = FALSE,
                        !.app.peak_count = 0,
                        !.app.offpeak_count = INF]
        ret == w1.cap.pos < w1.cap.nframes
        first_frame == IF ret THEN Frame(w1.cap.ids[1], w1.cap.h, w1.cap.w) ELSE NoFrame
    IN  IF ~ret THEN stop_video(w1)
        ELSE
          LET w2 == [w1 EXCEPT !.cap.pos = 1, !.app.current_frame = first_frame]
              w3 == RestartFirstFrame(w2, first_frame, det)
              w4 == [w3 EXCEPT !.app.displayed_frame = first_frame, !.cap.pos = 0]
              should_be_paused == loc.was_paused /\ ~loc.video_was_at_end
          IN  IF loc.video_was_running \/ loc.video_was_at_end
              THEN [vt_pause(vt_start(vt_set_capture(w4)), should_be_paused) EXCEPT
                        !.app.paused = should_be_paused,
                        !.app.play_button = should_be_paused,
                        !.app.pause_button = ~should_be_paused,
                        !.app.stop_button = TRUE,
                        !.app.restart_button = TRUE]
              ELSE [vt_pause(w4, TRUE) EXCEPT
                        !.app.paused = TRUE,
                        !.app.play_button = TRUE,
                        !.app.pause_button = FALSE,
                        !.app.stop_button = TRUE,
                        !.app.restart_button = TRUE]

\* the world when the join of restart_video returns, for the handler taken
\* as one step
restart_video_joining(w) ==
    IF isRunning(w.vt) THEN vt_wait(restart_video_request(w))
    ELSE restart_video_request(w)

\* restart_video as one step (src/app.py 1145-1312), processEvents at 1167
restart_video(w, det) ==
    IF ~CapOpened(w) THEN w
    ELSE LET w1 == DeliverAll(restart_video_joining(w))
         IN  IF w1.app.raised THEN w1
             ELSE restart_video_joined(w1, RestartLocals(w), det)

\* load_video_from_path after its call of stop_video (src/app.py 1826-1933),
\* processEvents at 1839;
\* exists: os.path.exists(file_path); video.opens: cap.isOpened()
load_video_after_stop(w, exists, video) ==
    IF ~exists \/ w.app.raised THEN w
    ELSE
      LET w0 == IF ~w.app.yolo_ready /\ ~isRunning(w.yt) THEN DeliverAll(w) ELSE w
          w1 == IF ~w.app.yolo_ready /\ ~isRunning(w.yt)
                THEN yt_start(set_model_path(w0)) ELSE w
          w2 == [w1 EXCEPT !.cap = [opened |-> video.opens, pos |-> 0,
                                    nframes |-> Len(video.ids), ids |-> video.ids,
                                    h |-> video.h, w |-> video.w],
                           !.app.cap = video.opens]
      IN  IF w0.app.raised THEN w0
          ELSE IF ~video.opens THEN w2
          ELSE
            LET w3 == [w2 EXCEPT !.app.video_time_ms = 0,
                                 !.app.last_frame_time = 1,
                                 !.app.people_data = <<>>,
                                 !.app.time_data = <<>>,
                                 !.app.heatmap_accumulator = NoneAcc,
                                 !.app.aggregate_heatmap_accumulator = NoneAcc,
                                 !.app.aggregate_frame_count = 0,
                                 !.app.people_count_history = <<>>,
                                 !.app.smoothed_people_count = 0,
                                 !.app.peak_count = 0,
                                 !.app.offpeak_count = INF,
                                 !.app.threshold_alert_active = FALSE,
                                 !.app.threshold_history = <<>>,
                                 !.app.toggles_enabled = TRUE,
                                 !.app.frame_interval = DefaultFrameInterval,
                                 !.app.paused = FALSE,
                                 !.app.play_button = FALSE,
                                 !.app.pause_button = TRUE,
                                 !.app.stop_button = TRUE,
                                 !.app.restart_button = TRUE,
                                 !.app.end_playback_label = FALSE]
            IN  vt_start(vt_pause(vt_set_capture(w3), FALSE))

\* load_video_from_path as one step (src/app.py 1819-1933)
load_video_from_path(w, exists, video) ==
    load_video_after_stop(stop_video(w), exists, video)

\* download_model up to its wait() (src/app.py 1690-1710), processEvents at
\* 1705; yolo_ready and the worker's model are left as they are
download_model_request(w, model_key) ==
    IF w.app.model_downloading THEN w
    ELSE LET w1 == DeliverAll([w EXCEPT !.app.model_downloading = TRUE])
         IN  IF isRunning(w1.yt) THEN yt_clear_running(w1) ELSE w1

\* download_model after the join (src/app.py 1712-1720)
download_model_joined(w, model_key) ==
    [w EXCEPT !.dl = [pc |-> "running", key |-> model_key]]

\* on_model_changed up to its wait() (src/app.py 1639-1684), processEvents
\* at 1678; a model whose file is missing goes to download_model
on_model_changed_request(w, model_key) ==
    IF model_key = w.app.current_model_key THEN w
    ELSE LET w1 == [w EXCEPT !.app.current_model_key = model_key]
         IN  IF model_key \notin w.files
             THEN download_model_request(w1, model_key)
             ELSE LET w2 == DeliverAll([w1 EXCEPT !.app.model_path = model_key,
                                                  !.app.yolo_ready = FALSE])
                  IN  IF isRunning(w2.yt) THEN yt_clear_running(w2) ELSE w2

\* on_model_changed after the join (src/app.py 1686-1687)
on_model_changed_joined(w) ==
    yt_start(set_model_path(w))

\* on_download_complete for a download that succeeded (src/app.py
\* 1728-1750), processEvents at 1745
on_download_complete(w, model_path) ==
    LET w1 == DeliverAll([w EXCEPT !.app.model_downloading = FALSE,
                                   !.app.model_path = model_path,
                                   !.app.yolo_ready = FALSE])
    IN  IF ~isRunning(w1.yt)
        THEN yt_start(set_model_path(w1))
        ELSE w1

\* on_download_complete for a download that failed (src/app.py 1756-1780):
\* setCurrentIndex on the default entry runs on_model_changed for it when
\* another entry was selected
on_download_failed(w) ==
    on_model_changed_request([w EXCEPT !.app.model_downloading = FALSE], DefaultModel)

\* closeEvent: the release after both joins (src/app.py 2401-2406)
closeEvent_release(w) ==
    IF CapOpened(w) THEN [w EXCEPT !.cap.opened = FALSE, !.app.cap = FALSE] ELSE w

-----------------------------------------------------------------------------
(* VideoFrameThread.run (src/core/threads.py 69-87), one step per          *)
(* statement that reads or writes shared state                             *)

emit(w, signal) == [w EXCEPT !.ev = Append(@, signal)]

\* line 70
vt_run_begin(w) == [w EXCEPT !.vt.running = TRUE, !.vt.pc = "while"]

\* line 73: the loop test; leaving the loop ends run()
vt_while(w) ==
    IF w.vt.running /\ w.vt.cap /\ w.cap.opened
    THEN [w EXCEPT !.vt.pc = "if_paused"]
    ELSE [w EXCEPT !.vt.pc = "idle"]

\* line 74
vt_if_paused(w) ==
    IF ~w.vt.paused THEN [w EXCEPT !.vt.pc = "read"] ELSE [w EXCEPT !.vt.pc = "while"]

\* lines 75-87: cap.read() and what follows it
vt_read_keeps_running(w) ==
    IF w.cap.opened /\ w.cap.pos < w.cap.nframes
    THEN emit([w EXCEPT !.cap.pos = @ + 1, !.vt.pc = "while"],
              [sig |-> "frame_ready", frame |-> Frame(w.cap.ids[w.cap.pos + 1], w.cap.h, w.cap.w)])
    ELSE emit([w EXCEPT !.vt.pc = "while"], [sig |-> "video_ended"])
vt_read(w) ==
    IF w.cap.opened /\ w.cap.pos < w.cap.nframes
    THEN emit([w EXCEPT !.cap.pos = @ + 1, !.vt.pc = "while"],
              [sig |-> "frame_ready", frame |-> Frame(w.cap.ids[w.cap.pos + 1], w.cap.h, w.cap.w)])
    ELSE emit([w EXCEPT !.vt.running = FALSE, !.vt.pc = "while"],
              [sig |-> "video_ended"])

-----------------------------------------------------------------------------
(* YoloDetectionThread.run (src/core/threads.py 137-186)                   *)

\* lines 138-141
yt_run_begin(w) ==
    [w EXCEPT !.yt.running = TRUE,
              !.yt.pc = IF w.yt.model THEN "while" ELSE "load_model"]

\* load_model (lines 121-135); ok: YOLO(model_path) does not raise
yt_load_model(w, ok) ==
    emit([w EXCEPT !.yt.model = ok,
                   !.yt.model_file = IF ok THEN w.yt.model_path ELSE NoModel,
                   !.yt.pc = "while"],
         [sig |-> "model_loaded", success |-> ok])

\* line 144
yt_while(w) ==
    IF w.yt.running THEN [w EXCEPT !.yt.pc = "check"] ELSE [w EXCEPT !.yt.pc = "idle"]

\* line 145
yt_check(w) ==
    IF Len(w.yt.frame_queue) > 0 /\ w.yt.model
    THEN [w EXCEPT !.yt.pc = "mark"]
    ELSE [w EXCEPT !.yt.pc = "while"]

\* line 146
yt_mark(w) == [w EXCEPT !.yt.processing = TRUE, !.yt.pc = "pop"]

\* line 147: pop(0) of an empty list raises outside the try block and
\* ends run()
yt_pop(w) ==
    IF w.yt.frame_queue = <<>>
    THEN [w EXCEPT !.yt.pc = "idle"]
    ELSE [w EXCEPT !.yt.frame = Head(w.yt.frame_queue),
                   !.yt.frame_queue = Tail(@),
                   !.yt.pc = "detect"]

\* lines 149-182: det is what the model call and the filter yield for the
\* frame (ok = FALSE: an exception inside the try block)
yt_detect_fatal(w, det) ==
    IF det.ok
    THEN emit([w EXCEPT !.yt.pc = "clear"],
              [sig |-> "detection_ready", frame |-> w.yt.frame,
               count |-> det.count, boxes |-> det.boxes])
    ELSE [w EXCEPT !.yt.pc = "idle"]
yt_detect(w, det) ==
    IF det.ok
    THEN emit([w EXCEPT !.yt.pc = "clear"],
              [sig |-> "detection_ready", frame |-> w.yt.frame,
               count |-> det.count, boxes |-> det.boxes])
    ELSE [w EXCEPT !.yt.pc = "clear"]

\* line 184
yt_clear(w) == [w EXCEPT !.yt.processing = FALSE, !.yt.pc = "while"]

-----------------------------------------------------------------------------
(* The state after construction (CrowdSenseApp.__init__, src/app.py 26-127) *)

AppInit ==
    [cap |-> FALSE, paused |-> FALSE, yolo_ready |-> FALSE,
     current_frame |-> NoFrame, displayed_frame |-> NoFrame,
     last_detected_boxes |-> <<>>,
     people_count_history |-> <<>>, smoothing_window_size |-> DefaultWindow,
     smoothed_people_count |-> 0,
     heatmap_enabled |-> FALSE, heatmap_accumulator |-> NoneAcc,
     aggregate_heatmap_accumulator |-> NoneAcc, aggregate_frame_count |-> 0,
     video_time_ms |-> 0, last_frame_time |-> 0,
     frame_interval |-> DefaultFrameInterval,
     crowd_detection_enabled |-> FALSE, crowd_size_threshold |-> DefaultThreshold,
     threshold_alert_active |-> FALSE, threshold_history |-> <<>>,
     raised |-> FALSE,
     current_model_key |-> DefaultModel, model_path |-> DefaultModel,
     model_downloading |-> FALSE,
     peak_count |-> 0, offpeak_count |-> INF,
     time_data |-> <<>>, people_data |-> <<>>,
     toggles_enabled |-> FALSE, end_playback_label |-> FALSE,
     play_button |-> TRUE, pause_button |-> FALSE,
     stop_button |-> FALSE, restart_button |-> FALSE]

VideoThreadInit == [pc |-> "idle", running |-> FALSE, paused |-> FALSE, cap |-> FALSE]

YoloThreadInit ==
    [pc |-> "idle", running |-> FALSE, model |-> FALSE, processing |-> FALSE,
     frame_queue |-> <<>>, frame |-> NoFrame,
     model_path |-> DefaultModel, model_file |-> NoModel,
     confidence_threshold |-> DefaultConfidence,
     det |-> [pc |-> "model", results |-> <<>>, i |-> 1, boxes |-> <<>>,
              people_count |-> 0]]

\* no ModelDownloadThread yet (src/app.py 53)
DownloadThreadInit == [pc |-> "idle", key |-> DefaultModel]

\* the weight files present when the application starts: the default
\* model's only
LocalModels == {DefaultModel}

CaptureInit == [opened |-> FALSE, pos |-> 0, nframes |-> 0, ids |-> <<>>, h |-> 0, w |-> 0]

UiInit == [pc |-> "idle", loc |-> <<>>]

GhostInit ==
    [op |-> "init",
     raw_log |-> <<>>, retained |-> 0,
     observed |-> {},
     all_zero |-> FALSE,
     resolution_changed |-> FALSE,
     loads |-> 0,
     burst |-> <<>>, burst_clean |-> TRUE,
     taken |-> [burst |-> <<>>, clean |-> FALSE, results |-> 0, raised |-> FALSE],
     run |-> [ended |-> 0, after |-> FALSE],
     exclusive |-> TRUE,
     failed |-> FALSE,
     selects |-> 0,
     fed |-> {},
     heat |-> [boxes |-> FALSE, same |-> FALSE],
     thresholds |-> {},
     emitted |-> [done |-> FALSE, results |-> <<>>, boxes |-> <<>>, count |-> 0,
                  thresholds |-> {}]]

InitWorld ==
    /\ app = AppInit
    /\ video_thread = VideoThreadInit
    /\ yolo_thread = YoloThreadInit
    /\ capture = CaptureInit
    /\ events = <<>>
    /\ download_thread = DownloadThreadInit
    /\ model_files = LocalModels
    /\ ui = UiInit

-----------------------------------------------------------------------------
(* Inputs *)

\* the videos a load can be given: cap.isOpened(), the picture each frame
\* shows, the frame size.  StillVideos show one picture throughout,
\* MovingVideos a different one in every frame.
StillVideos ==
    [opens : BOOLEAN, ids : {[i \in 1..MaxFrames |-> 1]}, h : {FrameSide}, w : {FrameSide}]
MovingVideos ==
    [opens : BOOLEAN, ids : {[i \in 1..MaxBurst |-> i]}, h : {FrameSide}, w : {FrameSide}]

\* a person box [x1, y1, x2, y2] inside a FrameSide x FrameSide frame
PersonBox == <<0, 0, FrameSide - 1, FrameSide - 1>>

\* what the detector yields for a frame: the person boxes above the
\* confidence threshold and their number, or an exception
Detected(c) == [ok |-> TRUE, count |-> c, boxes |-> [i \in 1..c |-> PersonBox]]
DetectionRaises == [ok |-> FALSE, count |-> 0, boxes |-> <<>>]
\* the counts drawn for a frame: the small ones, whose means of two fall on
\* and between the halves, and the largest
Counts == {0, 1, 2, MaxCount}
Detections == {Detected(c) : c \in Counts}
SparseDetections == {Detected(c) : c \in 0..MaxSparseCount} \cup {DetectionRaises}
OnePersonDetections == {Detected(1), DetectionRaises}

-----------------------------------------------------------------------------
(* Whole iterations of the two thread loops, and delivery of everything    *)
(* they emitted: the schedule in which the GUI thread handles each signal  *)
(* before the next thread step                                             *)

ReaderIteration(w) ==
    LET w0 == IF w.vt.pc = "started" THEN vt_run_begin(w) ELSE w
        w1 == vt_while(w0)
        w2 == vt_if_paused(w1)
    IN  IF w1.vt.pc = "idle" THEN w1
        ELSE IF w2.vt.pc = "while" THEN w2
        ELSE vt_read(w2)

WorkerIteration(w, det) ==
    yt_clear(yt_detect(yt_pop(yt_mark(yt_check(yt_while(w)))), det))

-----------------------------------------------------------------------------
(* History variables.                                                      *)
(*   op        what the last step did: "display_detection_results" after  *)
(*             the slot of a detection result, "restart_video_counted"     *)
(*             after a restart_video whose detector call returned,         *)
(*             "restart_video" after any other restart_video, "stop_video",*)
(*             "load_video" after a load_video_from_path that opened the   *)
(*             video, "load_failed" after one that did not, "reader" after *)
(*             a step of VideoFrameThread.run, "other" otherwise           *)
(*   raw_log   the raw counts pushed since the smoother was last reset     *)
(*             (the last MaxWindow + 1 of them)                            *)
(*   retained  how many of them the window should hold                     *)
(*   observed  the smoothed counts display_detection_results has produced  *)
(*             since the peak statistics were last reset                   *)
(*   all_zero  a video is loaded and every detection result since the load *)
(*             had count 0                                                 *)
(*   loads     the number of calls of load_video_from_path                 *)
(*   resolution_changed  the last update_heatmap call met accumulators of  *)
(*             another size                                                *)
(*   burst     the frames passed to add_frame since the worker last took a *)
(*             frame or the queue was cleared                              *)
(*   burst_clean  every one of them was passed while the worker had a      *)
(*             loaded model and had not yet decided to process             *)
(*   taken     burst and burst_clean as they were when the worker took its *)
(*             current frame, the results it has emitted since, and        *)
(*             whether the detector raised on it                           *)
(*   run       of the current run of VideoFrameThread.run: the video_ended *)
(*             signals it has emitted (at most 2 are counted), and whether *)
(*             it has read or emitted after the first of them              *)
(*   exclusive every seek, read or release of the capture by the GUI       *)
(*             thread so far happened while the reader thread was not      *)
(*             running                                                     *)

GhostReset(g, loaded) ==
    [g EXCEPT !.op = "other", !.raw_log = <<>>, !.retained = 0, !.observed = {},
              !.all_zero = loaded, !.burst = <<>>, !.burst_clean = TRUE]

GhostPush(g, a, count) ==
    [g EXCEPT !.raw_log = LastN(Append(@, count), MaxWindow + 1),
              !.retained = Min(@ + 1, a.smoothing_window_size)]

\* the frame a slot passes to add_frame, NoFrame when it passes none
Submitted(w, signal) ==
    CASE signal.sig = "frame_ready" /\ w.app.yolo_ready /\ w.yt.model -> signal.frame
      [] signal.sig = "model_loaded" /\ signal.success /\ w.app.paused -> w.app.current_frame
      [] OTHER -> NoFrame

\* YoloDetectionThread has a loaded model and has not decided to process a frame
WorkerIdle(w) ==
    /\ w.yt.model
    /\ w.yt.running
    /\ ~w.yt.processing
    /\ w.yt.pc \in {"while", "check"}

\* the history after the slot of a queued signal has run in world w
GhostDelivered(g, w, signal) ==
    LET frame == Submitted(w, signal)
        g1 == IF frame = NoFrame THEN g
              ELSE [g EXCEPT !.burst = Append(@, frame),
                             !.burst_clean = @ /\ WorkerIdle(w)]
    IN  IF signal.sig = "detection_ready" /\ signal.frame # NoFrame
        THEN [GhostPush(g1, w.app, signal.count) EXCEPT
                 !.op = "display_detection_results",
                 !.observed = @ \cup {Deliver(w, signal).app.smoothed_people_count},
                 !.all_zero = @ /\ signal.count = 0]
        ELSE [g1 EXCEPT !.op = "other"]

\* the history after processEvents has run in world w
RECURSIVE GhostDeliveredAll(_, _)
GhostDeliveredAll(g, w) ==
    IF w.ev = <<>> THEN g
    ELSE GhostDeliveredAll(GhostDelivered(g, w, Head(w.ev)),
                           Deliver([w EXCEPT !.ev = Tail(@)], Head(w.ev)))

\* the history after stop_video has run in world w
GhostStop(g, w) ==
    LET w1 == stop_video_joining(w)
    IN  GhostDeliveredAll([GhostReset(g, FALSE) EXCEPT
                              !.exclusive = @ /\ (w1.app.cap => ~isRunning(w1.vt))],
                          stop_video_reset(w1))

\* the history after load_video_from_path has run in world w
GhostLoad(g, w, loaded) ==
    LET g1 == GhostStop(g, w)
    IN  [(IF loaded
          THEN [g1 EXCEPT !.raw_log = <<>>, !.retained = 0, !.observed = {},
                          !.all_zero = TRUE]
          ELSE g1) EXCEPT !.op = IF loaded THEN "load_video" ELSE "load_failed"]

\* the handlers that reset the run: restart_video, stop_video and
\* load_video_from_path
ResetOps == {"restart_video", "restart_video_counted", "stop_video",
             "load_video", "load_failed"}

\* the history of the frames that were counted by aggregate_frame_count
\* since the last reset, after a handler has taken the application from
\* a to a2:
\* every caller of process_frame_with_heatmap displays the frame it passed
GhostFed(g, a, a2) ==
    LET frame == a2.displayed_frame
    IN  IF g.op \in ResetOps
        THEN [g EXCEPT !.fed = IF a2.aggregate_frame_count > 0 /\ frame # NoFrame
                                THEN {frame.id} ELSE {}]
        ELSE IF a2.aggregate_frame_count > a.aggregate_frame_count
                /\ frame # NoFrame
        THEN [g EXCEPT !.fed = @ \cup {frame.id}]
        ELSE g

\* an exception that leaves a slot reaches PyQt6, which ends the process
\* (qFatal; src/main.py installs no sys.excepthook): app.raised disables
\* every further step
Step(w, g) ==
    /\ ~app.raised
    /\ \E w2 \in {w}, g2 \in {g} :
        /\ Becomes(w2)
        /\ ghost' = GhostFed(g2, app, w2.app)
    /\ UNCHANGED ui

-----------------------------------------------------------------------------
(* The GUI handlers, each taken as one step, with the two threads          *)
(* advancing by whole loop iterations                                      *)

LoadVideo(videos) ==
    /\ ui.pc = "idle"
    /\ \E exists \in BOOLEAN, video \in videos :
        Step(load_video_from_path(World, exists, video),
             GhostLoad(ghost, World, exists /\ video.opens))

\* the same handler, with the number of loads of one run bounded
LoadVideoBounded(videos) ==
    /\ ui.pc = "idle"
    /\ ghost.loads < MaxLoads
    /\ \E exists \in BOOLEAN, video \in videos :
        Step(load_video_from_path(World, exists, video),
             [GhostLoad(ghost, World, exists /\ video.opens) EXCEPT !.loads = @ + 1])

StopVideo ==
    /\ ui.pc = "idle"
    /\ app.stop_button
    /\ Step(stop_video(World), [GhostStop(ghost, World) EXCEPT !.op = "stop_video"])

\* the history after restart_video_joined has run in world w
GhostRestart(g, w, det) ==
    LET pushed == w.app.yolo_ready /\ w.yt.model /\ det.ok
        g1 == [g EXCEPT !.op = IF pushed THEN "restart_video_counted"
                                          ELSE "restart_video",
                        !.observed = {},
                        !.all_zero = @ /\ (pushed => det.count = 0),
                        !.exclusive = @ /\ ~isRunning(w.vt)]
    IN  IF pushed
        THEN [g1 EXCEPT !.raw_log = <<det.count>>, !.retained = 1]
        ELSE g1

RestartVideo(detections) ==
    /\ ui.pc = "idle"
    /\ app.restart_button
    /\ app.aggregate_frame_count < MaxAggFrames
    /\ \E det \in detections :
        LET w == restart_video_joining(World)
        IN  Step(restart_video(World, det),
                 GhostRestart(GhostDeliveredAll(ghost, w), DeliverAll(w), det))

PauseVideo ==
    /\ ui.pc = "idle"
    /\ app.pause_button
    /\ Step(pause_video(World), [ghost EXCEPT !.op = "other"])

PlayVideo ==
    /\ ui.pc = "idle"
    /\ app.play_button
    /\ CapOpened(World)
    /\ Step(start_video(World), [ghost EXCEPT !.op = "other"])

ToggleCrowdDetection ==
    /\ ui.pc = "idle"
    /\ app.toggles_enabled
    /\ Step(on_crowd_detection_toggled(World, ~app.crowd_detection_enabled),
            [ghost EXCEPT !.op = IF app.crowd_detection_enabled /\ app.threshold_alert_active
                                 THEN "alert_switched_off" ELSE "other"])

ToggleHeatmap ==
    /\ ui.pc = "idle"
    /\ app.toggles_enabled
    /\ app.aggregate_frame_count < MaxAggFrames
    /\ Step(on_heatmap_toggled(World, ~app.heatmap_enabled),
            [ghost EXCEPT !.op = "other"])

MoveThresholdSlider ==
    /\ ui.pc = "idle"
    /\ app.crowd_detection_enabled
    /\ \E value \in MinThreshold..MaxThreshold :
        /\ value # app.crowd_size_threshold
        /\ Step(on_crowd_size_threshold_changed(World, value),
                [ghost EXCEPT !.op = "other"])

MoveSmoothingSlider ==
    /\ ui.pc = "idle"
    /\ app.crowd_detection_enabled
    /\ \E value \in 1..MaxWindow :
        /\ value # app.smoothing_window_size
        /\ Step(on_smoothing_window_changed(World, value),
                [ghost EXCEPT !.op = "other", !.retained = Min(@, value)])

ReaderLoop ==
    /\ ui.pc = "idle"
    /\ isRunning(video_thread)
    /\ app.aggregate_frame_count < MaxAggFrames
    /\ Step(DeliverAll(ReaderIteration(World)), [ghost EXCEPT !.op = "other"])

ModelLoad ==
    /\ ui.pc = "idle"
    /\ yolo_thread.pc = "started"
    /\ ~yolo_thread.model
    /\ \E ok \in BOOLEAN :
        Step(DeliverAll(yt_load_model(yt_run_begin(World), ok)),
             [ghost EXCEPT !.op = "other"])

WorkerLoop(detections) ==
    /\ ui.pc = "idle"
    /\ yolo_thread.pc = "while"
    /\ yolo_thread.running
    /\ yolo_thread.model
    /\ yolo_thread.frame_queue # <<>>
    /\ app.aggregate_frame_count < MaxAggFrames
    /\ Len(app.people_count_history) < MaxWindow
          \/ app.smoothing_window_size <= MaxWindow
    /\ \E det \in detections :
        LET w == DeliverAll(WorkerIteration(World, det))
        IN  Step(w,
                 IF det.ok
                 THEN [GhostPush(ghost, app, det.count) EXCEPT
                          !.op = "display_detection_results",
                          !.observed = @ \cup {w.app.smoothed_people_count},
                          !.all_zero = @ /\ det.count = 0]
                 ELSE [ghost EXCEPT !.op = "other"])

Init ==
    /\ InitWorld
    /\ ghost = GhostInit

\* Specification Spec: the counting pipeline (smoother, peak statistics,
\* alert engine) under any detection counts, the heatmap left off
Next ==
    \/ LoadVideo(StillVideos)
    \/ StopVideo
    \/ RestartVideo(Detections)
    \/ ToggleCrowdDetection
    \/ MoveThresholdSlider
    \/ MoveSmoothingSlider
    \/ ReaderLoop
    \/ ModelLoad
    \/ WorkerLoop(Detections)

Spec == Init /\ [][Next]_vars

\* Specification SpecSparse: playback of sparsely populated videos with the
\* heatmap, pause and resume
NextSparse ==
    \/ LoadVideo(StillVideos)
    \/ StopVideo
    \/ RestartVideo(SparseDetections)
    \/ PauseVideo
    \/ PlayVideo
    \/ ToggleCrowdDetection
    \/ ToggleHeatmap
    \/ MoveThresholdSlider
    \/ ReaderLoop
    \/ ModelLoad
    \/ WorkerLoop(SparseDetections)

SpecSparse == Init /\ [][NextSparse]_vars

-----------------------------------------------------------------------------
\* round(total / n) characterised without computing it: s is a nearest
\* integer of total / n, and the even one when total / n lies halfway
IsRoundedMean(s, total, n) ==
    LET twice == 2 * (s * n - total)
        away == IF twice < 0 THEN -twice ELSE twice
    IN  /\ away <= n
        /\ away = n => s % 2 = 0

\* C1: after any pushes and window resizes since the last reset, with
\* window capacity w, the window holds the last min(w, retained) raw counts
\* and smoothed_people_count is the rounded mean of them.
C1_SmoothedIsRoundedMean ==
    LET h == app.people_count_history
    IN  /\ Len(h) = ghost.retained
        /\ Len(h) <= app.smoothing_window_size
        /\ Len(h) > 0 =>
              /\ h = LastN(ghost.raw_log, Len(h))
              /\ IsRoundedMean(app.smoothed_people_count, SumSeq(h), Len(h))

\* a full window of capacity 2 that has evicted a count, its mean lying
\* halfway between 1 and 2
C1_Witness ==
    /\ app.smoothing_window_size = 2
    /\ Len(ghost.raw_log) > 2
    /\ Len(app.people_count_history) = 2
    /\ SumSeq(app.people_count_history) = 3
    /\ app.smoothed_people_count = 2
    /\ ghost.op = "display_detection_results"

\* C2: peak_count is the maximum smoothed count observed since the last
\* reset (0 if none) and offpeak_count the minimum strictly positive one
\* (+infinity if none).
C2_PeakAndOffpeak ==
    LET positive == {c \in ghost.observed : c > 0}
    IN  /\ app.peak_count = IF ghost.observed = {} THEN 0
                            ELSE CHOOSE c \in ghost.observed :
                                     \A d \in ghost.observed : d <= c
        /\ app.offpeak_count = IF positive = {} THEN INF
                               ELSE CHOOSE c \in positive : \A d \in positive : c <= d

\* C3: with crowd detection enabled, an observation appends exactly one
\* record, carrying the smoothed count and the threshold, when the count
\* exceeds the threshold while the state is Normal, and appends nothing
\* otherwise; the state afterwards is Alert iff the count exceeds the
\* threshold.
C3_AlertLogEdgeTriggered ==
    [][(ghost'.op = "display_detection_results" /\ app.crowd_detection_enabled)
       => LET c == app'.smoothed_people_count
              over == c > app.crowd_size_threshold
          IN  /\ app'.threshold_alert_active = over
              /\ app'.threshold_history =
                    IF over /\ ~app.threshold_alert_active
                    THEN Append(app.threshold_history,
                                [timestamp |-> app.video_time_ms, count |-> c,
                                 threshold |-> app.crowd_size_threshold])
                    ELSE app.threshold_history]_vars

\* C7: while a video is loaded and every detection result since the load
\* had count 0, the smoothed count and the peak are 0, offpeak_count is
\* +infinity, the alert log is empty and aggregate_frame_count is 0.
C7_ZeroDetections ==
    (ghost.all_zero /\ app.cap) =>
        /\ app.smoothed_people_count = 0
        /\ app.peak_count = 0
        /\ app.offpeak_count = INF
        /\ app.threshold_history = <<>>
        /\ app.aggregate_frame_count = 0

\* two zero results handled with crowd detection and the heatmap on
C7_Witness ==
    /\ ghost.all_zero
    /\ app.cap
    /\ app.crowd_detection_enabled
    /\ app.heatmap_enabled
    /\ ~IsNone(app.heatmap_accumulator)
    /\ app.people_count_history = <<0, 0>>
    /\ ghost.observed = {0}

-----------------------------------------------------------------------------
(* Specification SpecHeat: update_heatmap applied to any sequence of       *)
(* frames and box lists from the sets below                                *)

\* frame sizes (h, w): low-resolution grids 1x2, 2x1, 1x1 and none
HeatSizes == {<<5, 10>>, <<10, 5>>, <<5, 5>>, <<4, 10>>}
HeatFrames == {Frame(1, size[1], size[2]) : size \in HeatSizes}
HeatBoxes == {<<0, 0, 2, 4>>, <<6, 6, 8, 9>>}
HeatBoxLists == UNION {[1..n -> HeatBoxes] : n \in 0..MaxBoxes}

\* the frame of a call has the low-resolution size of both accumulators
SameResolution(a, frame) ==
    /\ ~IsNone(a.heatmap_accumulator)
    /\ ~IsNone(a.aggregate_heatmap_accumulator)
    /\ LowDim(frame.h) = a.heatmap_accumulator.h
    /\ LowDim(frame.w) = a.heatmap_accumulator.w

HeatUpdate ==
    \E frame \in HeatFrames, boxes \in HeatBoxLists :
        /\ boxes = <<>> \/ app.aggregate_frame_count < MaxHeatUpdates
        /\ Step(update_heatmap(World, frame, boxes),
                [ghost EXCEPT !.op = "other",
                              !.resolution_changed =
                                  /\ ReturnsDensity(frame)
                                  /\ ~IsNone(app.heatmap_accumulator)
                                  /\ <<app.heatmap_accumulator.h, app.heatmap_accumulator.w>>
                                         # <<LowDim(frame.h), LowDim(frame.w)>>,
                              !.heat = [boxes |-> boxes # <<>>
                                                      /\ SameResolution(app, frame),
                                        same |-> SameResolution(app, frame)]])

NextHeat == HeatUpdate

SpecHeat == Init /\ [][NextHeat]_vars

-----------------------------------------------------------------------------
\* C5: after any sequence of update_heatmap calls, with or without
\* detections, every cell of the live accumulator lies in [0, 1].
C5_LiveAccumulatorBounded ==
    ~IsNone(app.heatmap_accumulator) =>
        \A c \in DOMAIN app.heatmap_accumulator.g :
            /\ app.heatmap_accumulator.g[c] >= 0
            /\ app.heatmap_accumulator.g[c] <= Unit

\* the cap has acted: a saturated cell received a further contribution
C5_Witness ==
    /\ ~IsNone(app.heatmap_accumulator)
    /\ app.aggregate_frame_count = MaxHeatUpdates
    /\ \E c \in DOMAIN app.heatmap_accumulator.g : app.heatmap_accumulator.g[c] = Unit

\* C6: when update_heatmap is called with a frame whose low-resolution size
\* differs from the live accumulator's, both accumulators afterwards hold
\* only the current frame's contribution on a zero grid of the new size, and
\* aggregate_frame_count counts only the current frame.
C6_ResolutionChangeReallocates ==
    [][(/\ ~IsNone(app.heatmap_accumulator)
        /\ ~IsNone(app'.heatmap_accumulator)
        /\ <<app.heatmap_accumulator.h, app.heatmap_accumulator.w>>
               # <<app'.heatmap_accumulator.h, app'.heatmap_accumulator.w>>)
       => \E boxes \in HeatBoxLists :
            LET low_h == app'.heatmap_accumulator.h
                low_w == app'.heatmap_accumulator.w
                cur == CurrentHeatmap(low_h, low_w, boxes)
            IN  /\ app'.heatmap_accumulator =
                       [h |-> low_h, w |-> low_w,
                        g |-> [c \in 1..(low_h * low_w) |->
                                  (cur[c] * heatmap_intensity_pct) \div 100]]
                /\ app'.aggregate_heatmap_accumulator =
                       [h |-> low_h, w |-> low_w,
                        g |-> [c \in 1..(low_h * low_w) |->
                                  IF boxes = <<>> THEN 0 ELSE cur[c]]]
                /\ app'.aggregate_frame_count = IF boxes = <<>> THEN 0 ELSE 1]_vars

\* a call with detections has just changed the resolution of accumulators
\* that had counted earlier frames
C6_Witness ==
    /\ ghost.resolution_changed
    /\ app.aggregate_frame_count = 1
    /\ app.heatmap_accumulator.h = 2

-----------------------------------------------------------------------------
(* Specification SpecWorker: the detection thread statement by statement,  *)
(* against the GUI thread handling one queued signal at a time; the reader *)
(* advances by whole loop iterations                                       *)

\* the frame a slot passes to add_frame when it handles the signal
ReaderEmits ==
    /\ isRunning(video_thread)
    /\ Len(events) < MaxEvents
    /\ Step(ReaderIteration(World), [ghost EXCEPT !.op = "other"])

DeliverSignal ==
    /\ ui.pc = "idle"
    /\ events # <<>>
    /\ LET w == Deliver([World EXCEPT !.ev = Tail(@)], Head(events))
       IN  Step(w, GhostDelivered(ghost, World, Head(events)))

\* a step of YoloDetectionThread.run
WorkerStep(w) == Step(w, [ghost EXCEPT !.op = "other"])

YtRunBegin ==
    /\ yolo_thread.pc = "started"
    /\ WorkerStep(yt_run_begin(World))

YtLoadModel ==
    /\ yolo_thread.pc = "load_model"
    /\ \E ok \in BOOLEAN : WorkerStep(yt_load_model(World, ok))

YtWhile ==
    /\ yolo_thread.pc = "while"
    /\ WorkerStep(yt_while(World))

YtCheck ==
    /\ yolo_thread.pc = "check"
    /\ WorkerStep(yt_check(World))

YtMark ==
    /\ yolo_thread.pc = "mark"
    /\ WorkerStep(yt_mark(World))

YtPop ==
    /\ yolo_thread.pc = "pop"
    /\ Step(yt_pop(World),
            [ghost EXCEPT !.op = "other",
                          !.taken = [burst |-> ghost.burst, clean |-> ghost.burst_clean,
                                     results |-> 0, raised |-> FALSE],
                          !.burst = <<>>, !.burst_clean = TRUE])

YtDetect ==
    /\ yolo_thread.pc = "detect"
    /\ Len(events) < MaxEvents
    /\ \E det \in OnePersonDetections :
        LET w == yt_detect(World, det)
        IN  Step(w, [ghost EXCEPT !.op = "other",
                                  !.taken.raised = (det = DetectionRaises),
                                  !.failed = @ \/ (det = DetectionRaises),
                                  !.taken.results = @ + Len(w.ev) - Len(events)])

YtClear ==
    /\ yolo_thread.pc = "clear"
    /\ WorkerStep(yt_clear(World))

NextWorker ==
    \/ LoadVideoBounded(MovingVideos)
    \/ StopVideo
    \/ ReaderEmits
    \/ DeliverSignal
    \/ YtRunBegin
    \/ YtLoadModel
    \/ YtWhile
    \/ YtCheck
    \/ YtMark
    \/ YtPop
    \/ YtDetect
    \/ YtClear

SpecWorker == Init /\ [][NextWorker]_vars

\* C4: the pending queue never holds more than one frame; when frames were
\* submitted while the worker had a loaded model and had not started on any
\* of them, the frame it takes is the last one submitted and nothing else
\* is left pending, and for that frame it emits exactly one detection result
\* once the detector has returned (none when the detector raised).
C4_Backpressure ==
    /\ Len(yolo_thread.frame_queue) <= 1
    /\ (/\ yolo_thread.pc \in {"detect", "clear"}
        /\ ghost.taken.clean
        /\ ghost.taken.burst # <<>>)
       => /\ yolo_thread.frame = ghost.taken.burst[Len(ghost.taken.burst)]
          /\ yolo_thread.frame_queue = <<>>
          /\ ghost.taken.results =
                 IF yolo_thread.pc = "detect" \/ ghost.taken.raised THEN 0 ELSE 1

\* F1, F2, F3 were submitted before the worker started; it has taken F3
\* and emitted one result
C4_Witness ==
    /\ yolo_thread.pc = "clear"
    /\ ghost.taken.clean
    /\ ghost.taken.burst = <<Frame(1, FrameSide, FrameSide), Frame(2, FrameSide, FrameSide),
                             Frame(3, FrameSide, FrameSide)>>
    /\ yolo_thread.frame = Frame(3, FrameSide, FrameSide)
    /\ ghost.taken.results = 1

-----------------------------------------------------------------------------
(* Specification SpecReader: VideoFrameThread.run statement by statement   *)
(* against the GUI handlers that stop, join and restart it. A handler that *)
(* calls wait() is split at the call: ui.pc names the call it is blocked   *)
(* in, ui.loc holds its locals, and the GUI thread handles nothing else    *)
(* until wait() has returned. restart_video is split once more, at its     *)
(* processEvents.                                                          *)

StepUi(w, g, u) ==
    /\ ~app.raised
    /\ \E w2 \in {w} : Becomes(w2)
    /\ ghost' = g
    /\ ui' = u

\* the video_ended signals in a queue
NumEnded(ev) == Cardinality({i \in DOMAIN ev : ev[i].sig = "video_ended"})

\* the history after a step of VideoFrameThread.run from world w to w1
GhostReader(g, w, w1) ==
    LET emitted == Len(w1.ev) > Len(w.ev)
    IN  [g EXCEPT !.op = "reader",
                  !.run = IF w.vt.pc = "started"
                          THEN [ended |-> 0, after |-> FALSE]
                          ELSE [ended |-> Min(2, @.ended + NumEnded(w1.ev) - NumEnded(w.ev)),
                                after |-> @.after \/ (@.ended > 0 /\ (w.vt.pc = "read" \/ emitted))]]

ReaderStep(w) == Step(w, GhostReader(ghost, World, w))

VtRunBegin ==
    /\ video_thread.pc = "started"
    /\ ReaderStep(vt_run_begin(World))

VtWhile ==
    /\ video_thread.pc = "while"
    /\ ReaderStep(vt_while(World))

VtIfPaused ==
    /\ video_thread.pc = "if_paused"
    /\ ReaderStep(vt_if_paused(World))

\* signals queue up without bound while the GUI thread is blocked
VtRead ==
    /\ video_thread.pc = "read"
    /\ Len(events) < MaxEvents \/ ui.pc # "idle"
    /\ ReaderStep(vt_read(World))

\* load_video_from_path up to the join of its stop_video, or as a whole when
\* there is no reader to join
ReaderLoad ==
    /\ ui.pc = "idle"
    /\ ghost.loads < MaxLoads
    /\ \E exists \in BOOLEAN, video \in StillVideos :
        IF isRunning(video_thread)
        THEN StepUi(stop_video_request(World),
                    [ghost EXCEPT !.op = "other", !.loads = @ + 1],
                    [pc |-> "load_wait", loc |-> [exists |-> exists, video |-> video]])
        ELSE StepUi(load_video_from_path(World, exists, video),
                    [GhostLoad(ghost, World, exists /\ video.opens) EXCEPT !.loads = @ + 1],
                    ui)

LoadJoined ==
    /\ ui.pc = "load_wait"
    /\ VideoThreadJoined(World)
    /\ StepUi(load_video_after_stop(stop_video_joined(World), ui.loc.exists, ui.loc.video),
              GhostLoad(ghost, World, ui.loc.exists /\ ui.loc.video.opens),
              UiInit)

ReaderStop ==
    /\ ui.pc = "idle"
    /\ app.stop_button
    /\ IF isRunning(video_thread)
       THEN StepUi(stop_video_request(World), [ghost EXCEPT !.op = "other"],
                   [pc |-> "stop_wait", loc |-> <<>>])
       ELSE StepUi(stop_video(World), [GhostStop(ghost, World) EXCEPT !.op = "stop_video"], ui)

StopJoined ==
    /\ ui.pc = "stop_wait"
    /\ VideoThreadJoined(World)
    /\ StepUi(stop_video_joined(World), [GhostStop(ghost, World) EXCEPT !.op = "stop_video"],
              UiInit)

\* restart_video up to its wait() (src/app.py 1147-1164); without a reader
\* to join the handler is at the same place with nothing to wait for
ReaderRestart ==
    /\ ui.pc = "idle"
    /\ app.restart_button
    /\ CapOpened(World)
    /\ StepUi(restart_video_request(World), [ghost EXCEPT !.op = "other"],
              [pc |-> "restart_wait", loc |-> RestartLocals(World)])

\* processEvents at line 1167 with only queued signals to handle
RestartProcessEvents ==
    /\ ui.pc = "restart_wait"
    /\ VideoThreadJoined(World)
    /\ StepUi(DeliverAll(World), [GhostDeliveredAll(ghost, World) EXCEPT !.op = "other"],
              [ui EXCEPT !.pc = "restart_seek"])

\* processEvents at line 1167 with, after the queued signals, a click on the
\* video label or a dropped file waiting: open_file_dialog or dropEvent runs
\* load_video_from_path inside restart_video
RestartNestedLoad ==
    /\ ui.pc = "restart_wait"
    /\ VideoThreadJoined(World)
    /\ ghost.loads < MaxLoads
    /\ \E exists \in BOOLEAN, video \in StillVideos :
        LET w == DeliverAll(World)
            g == GhostDeliveredAll(ghost, World)
        IN  StepUi(load_video_from_path(w, exists, video),
                   [GhostLoad(g, w, exists /\ video.opens) EXCEPT !.loads = @ + 1],
                   [ui EXCEPT !.pc = "restart_seek"])

\* restart_video from line 1171 on; self.cap.set on None raises and ends
\* the handler
RestartSeek ==
    /\ ui.pc = "restart_seek"
    /\ IF ~app.cap
       THEN StepUi(World, [ghost EXCEPT !.op = "other"], UiInit)
       ELSE \E det \in OnePersonDetections :
               StepUi(restart_video_joined(World, ui.loc, det),
                      GhostRestart(ghost, World, det), UiInit)

\* closeEvent up to its first wait() (src/app.py 2378-2381)
ReaderClose ==
    /\ ui.pc = "idle"
    /\ StepUi(IF isRunning(video_thread) THEN vt_clear_running(World) ELSE World,
              [ghost EXCEPT !.op = "other"],
              [pc |-> "close_wait_video", loc |-> <<>>])

\* closeEvent up to its second wait() (lines 2385-2388)
CloseVideoJoined ==
    /\ ui.pc = "close_wait_video"
    /\ VideoThreadJoined(World)
    /\ StepUi(IF isRunning(yolo_thread) THEN yt_clear_running(World) ELSE World,
              [ghost EXCEPT !.op = "other"],
              [ui EXCEPT !.pc = "close_wait_yolo"])

\* closeEvent from line 2401 on; the window is closed
CloseYoloJoined ==
    /\ ui.pc = "close_wait_yolo"
    /\ YoloThreadJoined(World)
    /\ StepUi(closeEvent_release(World),
              [ghost EXCEPT !.op = "other",
                            !.exclusive = @ /\ (CapOpened(World) => ~isRunning(video_thread))],
              [ui EXCEPT !.pc = "closed"])

\* load_model when YOLO(self.model_path) raises
YtLoadModelFails ==
    /\ yolo_thread.pc = "load_model"
    /\ WorkerStep(yt_load_model(World, FALSE))

ReaderThread == VtRunBegin \/ VtWhile \/ VtIfPaused \/ VtRead

\* the detector's model does not load: YoloDetectionThread idles in its
\* loop and no frame is handed to it
WorkerThread ==
    \/ YtRunBegin
    \/ YtLoadModelFails
    \/ YtWhile
    \/ YtCheck

GuiThread ==
    \/ ReaderLoad
    \/ LoadJoined
    \/ ReaderStop
    \/ StopJoined
    \/ ReaderRestart
    \/ RestartProcessEvents
    \/ RestartNestedLoad
    \/ RestartSeek
    \/ PauseVideo
    \/ PlayVideo
    \/ DeliverSignal
    \/ ReaderClose
    \/ CloseVideoJoined
    \/ CloseYoloJoined

NextReader == ReaderThread \/ WorkerThread \/ GuiThread

SpecReader == Init /\ [][NextReader]_vars

\* each thread keeps running while it can take a step, and a handler
\* blocked in wait() goes on once the thread it waits for has finished
FairSpecReader ==
    /\ SpecReader
    /\ WF_vars(ReaderThread)
    /\ WF_vars(WorkerThread)
    /\ WF_vars(LoadJoined \/ StopJoined \/ RestartProcessEvents \/ CloseVideoJoined
                  \/ CloseYoloJoined)

\* C8: in each run of the reader loop video_ended is emitted only by a read
\* that fails, at most once; after it the run reads nothing and emits
\* nothing more, its one remaining step leaves the loop, and no step of the
\* reader moves the capture back.
C8_EndOfStream ==
    [][/\ NumEnded(events') > NumEnded(events)
          => /\ ghost'.op = "reader"
             /\ video_thread.pc = "read"
             /\ ~capture.opened \/ capture.pos >= capture.nframes
             /\ ghost.run.ended = 0
             /\ NumEnded(events') = NumEnded(events) + 1
       /\ (ghost'.op = "reader" /\ video_thread.pc = "read"
             /\ (~capture.opened \/ capture.pos >= capture.nframes))
          => NumEnded(events') = NumEnded(events) + 1
       /\ (ghost'.op = "reader" /\ video_thread.pc # "started" /\ ghost.run.ended > 0)
          => /\ video_thread.pc = "while"
             /\ video_thread'.pc = "idle"
             /\ events' = events
             /\ capture' = capture
       /\ ghost'.op = "reader" => capture'.pos >= capture.pos
       /\ ~ghost'.run.after]_vars

\* a run read the whole video, emitted video_ended on the failed read and
\* left its loop with the capture still at the end; the GUI thread has shown
\* the end of playback
C8_Witness ==
    /\ ghost.run.ended = 1
    /\ ghost.op = "reader"
    /\ video_thread.pc = "idle"
    /\ capture.opened
    /\ capture.pos = capture.nframes
    /\ capture.nframes = MaxFrames
    /\ ui.pc = "idle"

\* C9: whenever the GUI thread seeks, reads or releases the capture, the
\* reader thread is not running.
C9_ExclusiveAccess == ghost.exclusive

\* C10: a handler blocked in wait() after stop() gets on: the thread it
\* waits for leaves its loop.
C10_StopReturns ==
    /\ (ui.pc \in {"load_wait", "stop_wait", "restart_wait", "close_wait_video"}
          /\ isRunning(video_thread))
       ~> ~isRunning(video_thread)
    /\ (ui.pc = "close_wait_yolo" /\ isRunning(yolo_thread))
       ~> ~isRunning(yolo_thread)

-----------------------------------------------------------------------------
(* Resets: restart_video, stop_video, load_video_from_path *)

\* the heatmap fields of app record a when they hold nothing but what
\* restart_video computes from its first frame
HoldsOnlyFirstFrame(a) ==
    LET none == [a EXCEPT !.heatmap_accumulator = NoneAcc,
                          !.aggregate_heatmap_accumulator = NoneAcc,
                          !.aggregate_frame_count = 0]
        first == process_frame_with_heatmap([World EXCEPT !.app = none],
                                            a.current_frame, a.last_detected_boxes).app
    IN  /\ a.heatmap_accumulator = first.heatmap_accumulator
        /\ a.aggregate_heatmap_accumulator = first.aggregate_heatmap_accumulator
        /\ a.aggregate_frame_count = first.aggregate_frame_count

\* C11: after restart_video, stop_video or a load_video_from_path that
\* opened the video, the smoothing window, the timeline and the heatmap
\* accumulators hold nothing from before the call: they are empty, or hold
\* only the first frame restart_video ran through the detector.
C11_ResetDiscardsHistory ==
    [][ghost'.op \in {"restart_video", "restart_video_counted", "stop_video", "load_video"}
       => LET counted == ghost'.op = "restart_video_counted"
              c == Len(app'.last_detected_boxes)
          IN  /\ app'.people_count_history = IF counted THEN <<c>> ELSE <<>>
              /\ app'.smoothed_people_count = IF counted THEN c ELSE 0
              /\ app'.time_data = <<>>
              /\ app'.people_data = <<>>
              /\ IF counted THEN HoldsOnlyFirstFrame(app')
                 ELSE /\ IsNone(app'.heatmap_accumulator)
                      /\ IsNone(app'.aggregate_heatmap_accumulator)
                      /\ app'.aggregate_frame_count = 0]_vars

\* C12: each of restart_video, stop_video and a successful
\* load_video_from_path leaves peak_count = 0, offpeak_count = +infinity,
\* the alert state Normal and the alert log empty.
C12_ResetPeakAndAlertLog ==
    [][ghost'.op \in {"restart_video", "restart_video_counted", "stop_video", "load_video"}
       => /\ app'.peak_count = 0
          /\ app'.offpeak_count = INF
          /\ ~app'.threshold_alert_active
          /\ app'.threshold_history = <<>>]_vars

\* C13: immediately after the crowd size threshold is changed or crowd
\* detection is switched on, the alert state is Alert iff crowd detection
\* is enabled and the smoothed count exceeds the threshold; a change from
\* Normal to Alert appends one record and an unchanged state appends none.
C13_AlertReevaluatedOnEdit ==
    [][(\/ app'.crowd_size_threshold # app.crowd_size_threshold
        \/ ~app.crowd_detection_enabled /\ app'.crowd_detection_enabled)
       => LET over == /\ app'.crowd_detection_enabled
                      /\ app'.smoothed_people_count > app'.crowd_size_threshold
          IN  /\ app'.threshold_alert_active = over
              /\ app'.threshold_history =
                    IF over /\ ~app.threshold_alert_active
                    THEN Append(app.threshold_history,
                                [timestamp |-> app'.video_time_ms,
                                 count |-> app'.smoothed_people_count,
                                 threshold |-> app'.crowd_size_threshold])
                    ELSE app.threshold_history]_vars

\* C14: on_smoothing_window_changed(n) returns with the window holding the
\* most recent min(n, previous length) raw counts in their order,
\* smoothed_people_count the rounded mean of the window (0 if it is empty)
\* and, crowd detection being enabled, the alert state re-evaluated against
\* the new smoothed count.
C14_ResizeKeepsMostRecent ==
    [][app'.smoothing_window_size # app.smoothing_window_size
       => LET n == app'.smoothing_window_size
              old == app.people_count_history
              h == app'.people_count_history
          IN  /\ ~app'.raised
              /\ Len(h) = Min(n, Len(old))
              /\ h = SubSeq(old, Len(old) - Len(h) + 1, Len(old))
              /\ IF h = <<>> THEN app'.smoothed_people_count = 0
                 ELSE IsRoundedMean(app'.smoothed_people_count, SumSeq(h), Len(h))
              /\ app'.crowd_detection_enabled =>
                    (app'.threshold_alert_active <=>
                        app'.smoothed_people_count > app'.crowd_size_threshold)]_vars

\* C15: while the paused flag of VideoFrameThread is set, no step of its
\* loop reads the capture or emits frame_ready or video_ended.
C15_PausedReaderIdle ==
    [][(ghost'.op = "reader" /\ video_thread.paused)
       => /\ capture' = capture
          /\ events' = events]_vars

\* C16: a load_video_from_path whose path does not exist or whose capture
\* does not open starts neither thread and leaves no video loaded: cap is
\* None, the reader thread not running and the playback controls in their
\* stopped configuration.
C16_OpenFailureStartsNothing ==
    [][ghost'.op = "load_failed"
       => /\ isRunning(video_thread') => isRunning(video_thread)
          /\ isRunning(yolo_thread') => isRunning(yolo_thread)
          /\ ~app'.cap
          /\ ~isRunning(video_thread')
          /\ app'.play_button /\ ~app'.pause_button
          /\ ~app'.stop_button /\ ~app'.restart_button]_vars

\* C17: when the detection call raises for a frame, the worker emits no
\* result for it and goes on to clear its processing flag; clearing the
\* flag returns it to the loop test, which keeps it in the loop while
\* running is set, so that the next submitted frame is processed.
C17_DetectionFailureNonFatal ==
    [][/\ (ghost'.taken.raised /\ ~ghost.taken.raised)
            => /\ events' = events
               /\ yolo_thread'.pc = "clear"
               /\ yolo_thread'.running = yolo_thread.running
       /\ (yolo_thread.pc = "clear" /\ yolo_thread'.pc # "clear")
            => /\ ~yolo_thread'.processing
               /\ yolo_thread'.pc = "while"
       /\ (yolo_thread.pc = "while" /\ yolo_thread.running /\ yolo_thread'.pc # "while")
            => yolo_thread'.pc = "check"]_vars

\* after a detection call has raised, a later frame was taken and its
\* detection result emitted
C17_Witness ==
    /\ ghost.failed
    /\ ~ghost.taken.raised
    /\ ghost.taken.results = 1
    /\ yolo_thread.pc = "clear"
    /\ yolo_thread.running

\* C18: a load attempt emits exactly one model_loaded event, carrying
\* whether the model was loaded; yolo_ready becomes true only by handling
\* a model_loaded event that reports success, so that it stays false after
\* a failure; and a frame delivered by the reader while yolo_ready is false
\* is displayed raw and is not submitted to the worker.
C18_ModelLoadFailure ==
    [][/\ (yolo_thread.pc = "load_model" /\ yolo_thread'.pc # "load_model")
            => events' = Append(events, [sig |-> "model_loaded",
                                         success |-> yolo_thread'.model])
       /\ (app'.yolo_ready /\ ~app.yolo_ready)
            => \E i \in DOMAIN events :
                   events[i].sig = "model_loaded" /\ events[i].success
       /\ (/\ ghost'.op = "other"
           /\ events # <<>>
           /\ events' = Tail(events)
           /\ Head(events).sig = "frame_ready"
           /\ ~app.yolo_ready)
            => /\ app'.displayed_frame = Head(events).frame
               /\ app'.current_frame = Head(events).frame
               /\ app'.last_detected_boxes = app.last_detected_boxes
               /\ yolo_thread' = yolo_thread]_vars

\* the load has failed and its event was handled; a frame read afterwards
\* is on display and nothing is pending for the worker
C18_Witness ==
    /\ ~app.yolo_ready
    /\ ~yolo_thread.model
    /\ yolo_thread.pc \in {"while", "check"}
    /\ \A i \in DOMAIN events : events[i].sig # "model_loaded"
    /\ app.displayed_frame # NoFrame
    /\ app.displayed_frame = app.current_frame
    /\ yolo_thread.frame_queue = <<>>

\* C19: after a slot has passed a non-null frame F to add_frame, in any
\* state of the worker, F is the one pending frame.
C19_LatestFrameWins ==
    [][(/\ ghost'.op = "other"
        /\ events # <<>>
        /\ events' = Tail(events)
        /\ Submitted(World, Head(events)) # NoFrame)
       => yolo_thread'.frame_queue = <<Submitted(World, Head(events))>>]_vars

\* C20: while crowd detection is disabled the alert state is Normal;
\* switching crowd detection off moves the state to Normal and appends
\* nothing to the alert log; and no observation made while it is disabled
\* changes the alert state or the log.
C20_DisabledMeansNormal ==
    /\ [](~app.crowd_detection_enabled => ~app.threshold_alert_active)
    /\ [][(/\ app.crowd_detection_enabled /\ ~app'.crowd_detection_enabled
            /\ ghost'.op \in {"other", "alert_switched_off"})
            => /\ ~app'.threshold_alert_active
               /\ app'.threshold_history = app.threshold_history]_vars
    /\ [][(ghost'.op = "display_detection_results" /\ ~app.crowd_detection_enabled)
            => /\ app'.threshold_alert_active = app.threshold_alert_active
               /\ app'.threshold_history = app.threshold_history]_vars

\* crowd detection was switched off in Alert, with the count still above
\* the threshold
C20_Witness ==
    /\ ghost.op = "alert_switched_off"
    /\ ~app.crowd_detection_enabled
    /\ ~app.threshold_alert_active
    /\ app.smoothed_people_count > app.crowd_size_threshold

-----------------------------------------------------------------------------
(* Model selection: on_model_changed, download_model and the download      *)
(* thread, with YoloDetectionThread advancing statement by statement and   *)
(* each handler split at its wait().  The download thread's                *)
(* download_complete is handled as soon as it is emitted.                  *)

\* where on_model_changed(model_key), called in world w, blocks
ModelChangeWait(w, model_key) ==
    IF model_key = w.app.current_model_key THEN UiInit
    ELSE IF model_key \notin w.files
    THEN IF w.app.model_downloading THEN UiInit
         ELSE [pc |-> "download_wait", loc |-> [key |-> model_key]]
    ELSE [pc |-> "change_wait", loc |-> <<>>]

\* the user picks another entry of model_combo
SelectModel ==
    /\ ui.pc = "idle"
    /\ ghost.selects < MaxSelects
    /\ \E model_key \in available_models \ {app.current_model_key} :
        StepUi(on_model_changed_request(World, model_key),
               [GhostDeliveredAll(ghost, World) EXCEPT !.op = "other", !.selects = @ + 1],
               ModelChangeWait(World, model_key))

ChangeJoined ==
    /\ ui.pc = "change_wait"
    /\ YoloThreadJoined(World)
    /\ StepUi(on_model_changed_joined(World), [ghost EXCEPT !.op = "other"], UiInit)

DownloadJoined ==
    /\ ui.pc = "download_wait"
    /\ YoloThreadJoined(World)
    /\ StepUi(download_model_joined(World, ui.loc.key), [ghost EXCEPT !.op = "other"],
              UiInit)

\* ModelDownloadThread.run ends (src/core/threads.py 23-35) and the slot of
\* its download_complete runs
DownloadFinishes ==
    /\ ui.pc = "idle"
    /\ download_thread.pc = "running"
    /\ \E success \in BOOLEAN :
        LET w == [World EXCEPT !.dl.pc = "idle",
                               !.files = IF success THEN @ \cup {download_thread.key}
                                         ELSE @]
            g == [GhostDeliveredAll(ghost, World) EXCEPT !.op = "other"]
        IN  IF success
            THEN StepUi(on_download_complete(w, download_thread.key), g, ui)
            ELSE StepUi(on_download_failed(w), g,
                        ModelChangeWait([w EXCEPT !.app.model_downloading = FALSE],
                                        DefaultModel))

\* lines 146-184 of YoloDetectionThread.run in one step, the detector
\* finding one person
YtProcessFrame ==
    /\ yolo_thread.pc = "mark"
    /\ Len(events) < MaxEvents
    /\ WorkerStep(yt_clear(yt_detect(yt_pop(yt_mark(World)), Detected(1))))

NextModel ==
    \/ LoadVideoBounded(StillVideos)
    \/ ReaderEmits
    \/ DeliverSignal
    \/ YtRunBegin
    \/ YtLoadModel
    \/ YtWhile
    \/ YtCheck
    \/ YtProcessFrame
    \/ SelectModel
    \/ ChangeJoined
    \/ DownloadJoined
    \/ DownloadFinishes

SpecModel == Init /\ [][NextModel]_vars

\* C21: every frame delivered by the reader to process_video_frame is
\* either passed to a detection worker that is running with a loaded model
\* or displayed raw.
C21_RawFrameFallback ==
    [][(/\ ghost'.op = "other"
        /\ events # <<>>
        /\ events' = Tail(events)
        /\ Head(events).sig = "frame_ready")
       => \/ /\ Submitted(World, Head(events)) # NoFrame
             /\ isRunning(yolo_thread)
             /\ yolo_thread.model
          \/ app'.displayed_frame = Head(events).frame]_vars

-----------------------------------------------------------------------------
(* The confidence filter of YoloDetectionThread.run (src/core/threads.py   *)
(* 151-179), box by box, beside on_threshold_changed on the GUI thread.    *)
(* A box is its position in the detector's output and its confidence.      *)

Confidences == (DefaultConfidence - MaxConfidenceStep)..(DefaultConfidence + MaxConfidenceStep)

\* the detector's outputs for a frame
RawResults ==
    UNION {[1..n -> Confidences] : n \in 0..MaxBoxes}

\* the boxes of results above threshold, in detector order
RECURSIVE FilterConfidence(_, _, _)
FilterConfidence(results, threshold, from) ==
    IF from > Len(results) THEN <<>>
    ELSE IF results[from] > threshold
    THEN <<from>> \o FilterConfidence(results, threshold, from + 1)
    ELSE FilterConfidence(results, threshold, from + 1)

\* line 151: the model call returns
yt_model_call(w, results) ==
    [w EXCEPT !.yt.det = [pc |-> "box", results |-> results, i |-> 1,
                          boxes |-> <<>>, people_count |-> 0]]

\* lines 157-176: one turn of the loop over the boxes; the threshold is
\* read from self.confidence_threshold for every box
yt_filter_box(w) ==
    LET d == w.yt.det
    IN  IF d.i > Len(d.results) THEN [w EXCEPT !.yt.det.pc = "emit"]
        ELSE IF d.results[d.i] > w.yt.confidence_threshold
        THEN [w EXCEPT !.yt.det.boxes = Append(@, d.i),
                       !.yt.det.people_count = @ + 1,
                       !.yt.det.i = @ + 1]
        ELSE [w EXCEPT !.yt.det.i = @ + 1]

\* line 179: detection_ready.emit(frame, people_count, boxes)
yt_emit_result(w) == [w EXCEPT !.yt.det.pc = "model"]

\* on_threshold_changed (src/app.py 1605-1613); value: the slider's
on_threshold_changed(w, value) == [w EXCEPT !.yt.confidence_threshold = value]

FilterModelCall ==
    /\ yolo_thread.det.pc = "model"
    /\ \E results \in RawResults :
        Step(yt_model_call(World, results),
             [ghost EXCEPT !.op = "other",
                           !.thresholds = {yolo_thread.confidence_threshold},
                           !.emitted.done = FALSE])

FilterBox ==
    /\ yolo_thread.det.pc = "box"
    /\ Step(yt_filter_box(World), [ghost EXCEPT !.op = "other"])

FilterEmit ==
    /\ yolo_thread.det.pc = "emit"
    /\ Step(yt_emit_result(World),
            [ghost EXCEPT !.op = "other",
                          !.emitted = [done |-> TRUE,
                                       results |-> yolo_thread.det.results,
                                       boxes |-> yolo_thread.det.boxes,
                                       count |-> yolo_thread.det.people_count,
                                       thresholds |-> ghost.thresholds]])

MoveConfidenceSlider ==
    /\ \E value \in Confidences \ {yolo_thread.confidence_threshold} :
        Step(on_threshold_changed(World, value),
             [ghost EXCEPT !.op = "other", !.thresholds = @ \cup {value}])

NextFilter == FilterModelCall \/ FilterBox \/ FilterEmit \/ MoveConfidenceSlider

SpecFilter == Init /\ [][NextFilter]_vars

\* C22: the boxes emitted for a frame are exactly the detector's boxes
\* whose confidence is strictly greater than the confidence threshold in
\* force while the frame was processed, in detector order, and the emitted
\* count is their number.
C22_ConfidenceFilter ==
    ghost.emitted.done =>
        \E t \in ghost.emitted.thresholds :
            /\ ghost.emitted.boxes = FilterConfidence(ghost.emitted.results, t, 1)
            /\ ghost.emitted.count = Len(ghost.emitted.boxes)

-----------------------------------------------------------------------------
(* Timeline recorder                                                       *)

\* C23: between resets (restart, stop, load) the timeline is append-only:
\* every recorded sample (time, smoothed count) stays where it is with the
\* value it was recorded with; time_data and people_data have the same
\* length and time_data is strictly increasing.
C23_TimelineAppendOnly ==
    [][/\ Len(app'.time_data) = Len(app'.people_data)
       /\ \A i \in 1..(Len(app'.time_data) - 1) :
              app'.time_data[i] < app'.time_data[i + 1]
       /\ ghost'.op \notin ResetOps =>
              /\ Len(app'.time_data) >= Len(app.time_data)
              /\ \A i \in 1..Len(app.time_data) :
                     /\ app'.time_data[i] = app.time_data[i]
                     /\ app'.people_data[i] = app.people_data[i]]_vars

-----------------------------------------------------------------------------
(* Aggregate accumulator                                                   *)

\* C24: on an update_heatmap call whose frame has the resolution of the
\* existing accumulators, the live accumulator is multiplied by the decay
\* factor before the frame's contribution is added, the aggregate is never
\* decayed, so none of its cells decreases; the aggregate changes and
\* aggregate_frame_count grows by exactly 1 if and only if the call had at
\* least one box, and both are unchanged by a call with no boxes.
C24_AggregateAccumulator ==
    [][ghost'.heat.same =>
        LET live == app.heatmap_accumulator
            agg == app.aggregate_heatmap_accumulator
            boxes == ghost'.heat.boxes
        IN  /\ ~boxes =>
                   \A c \in DOMAIN live.g :
                       app'.heatmap_accumulator.g[c] =
                           (live.g[c] * heatmap_decay_pct) \div 100
            /\ \A c \in DOMAIN agg.g :
                   app'.aggregate_heatmap_accumulator.g[c] >= agg.g[c]
            /\ (app'.aggregate_heatmap_accumulator # agg) <=> boxes
            /\ app'.aggregate_frame_count =
                   app.aggregate_frame_count + (IF boxes THEN 1 ELSE 0)]_vars

\* two calls with boxes and then one without, all at one resolution: a cell
\* of the aggregate holds both contributions while the live cell has decayed
C24_Witness ==
    /\ ~ghost.resolution_changed
    /\ app.aggregate_frame_count = 2
    /\ \E c \in DOMAIN app.heatmap_accumulator.g :
           /\ app.aggregate_heatmap_accumulator.g[c] = 2 * Unit
           /\ app.heatmap_accumulator.g[c] > 0
           /\ app.heatmap_accumulator.g[c] < Unit

-----------------------------------------------------------------------------
(* Run to completion on the GUI thread                                     *)

\* the handlers of the Stop, Open and Restart buttons
UserOps == {"stop_video", "load_video", "load_failed", "restart_video",
            "restart_video_counted"}

\* C25: the GUI thread runs each handler to completion before it accepts
\* the next delivered item: a user operation (stop, load, restart) handles
\* none of the signals queued for the GUI thread, which all stay queued
\* until the handler has returned.
C25_RunToCompletion ==
    [][ghost'.op \in UserOps =>
          /\ Len(events') >= Len(events)
          /\ SubSeq(events', 1, Len(events)) = events]_vars

-----------------------------------------------------------------------------
(* The pending queue under concurrent replacement                          *)

\* C26: in every interleaving of the worker loop with add_frame and with
\* stop_video's clearing of the pending queue, the worker never executes
\* frame_queue.pop(0) on an empty queue, and its run() never ends between
\* setting and clearing `processing`, that is by an exception raised
\* outside the per-frame try block.
C26_QueueClearRace ==
    /\ yolo_thread.pc = "pop" => yolo_thread.frame_queue # <<>>
    /\ ~isRunning(yolo_thread) => ~yolo_thread.processing

-----------------------------------------------------------------------------
(* After stop_video                                                        *)

\* C27: while no video is loaded (from the return of stop_video to the next
\* successful load) the state stays reset: the smoothing window is empty,
\* smoothed_people_count is 0, peak_count is 0, offpeak_count is +infinity,
\* current_frame and displayed_frame are null and the timeline is empty,
\* whatever signals were queued or are emitted afterwards.
C27_NoStaleResults ==
    ~app.cap =>
        /\ app.people_count_history = <<>>
        /\ app.smoothed_people_count = 0
        /\ app.peak_count = 0
        /\ app.offpeak_count = INF
        /\ app.current_frame = NoFrame
        /\ app.displayed_frame = NoFrame
        /\ app.time_data = <<>>
        /\ app.people_data = <<>>

-----------------------------------------------------------------------------
(* Peak and off-peak against the displayed count                           *)

\* C28: in every state between handlers peak_count >= smoothed_people_count,
\* and offpeak_count <= smoothed_people_count whenever the smoothed count is
\* positive, also after a smoothing-window resize and after the first frame
\* processed by restart_video.
C28_PeakDominates ==
    ~app.raised =>
        /\ app.peak_count >= app.smoothed_people_count
        /\ app.smoothed_people_count > 0 =>
               app.offpeak_count <= app.smoothed_people_count

-----------------------------------------------------------------------------
(* Model selection                                                         *)

\* C29: whenever yolo_ready is true the model held by the detection worker
\* was loaded from the file of the model named by current_model_key, for
\* every sequence of selections, downloads and failed downloads.
C29_ModelSelectionConsistent ==
    app.yolo_ready =>
        /\ yolo_thread.model
        /\ yolo_thread.model_file = app.current_model_key

-----------------------------------------------------------------------------
(* Specification SpecAggregate: playback of a video whose frames all       *)
(* differ, with the heatmap, pause, resume and restart                     *)

\* the detector finds nobody or one person
AggregateDetections == {Detected(0), Detected(1)}

NextAggregate ==
    \/ LoadVideoBounded(MovingVideos)
    \/ RestartVideo(AggregateDetections)
    \/ PauseVideo
    \/ PlayVideo
    \/ ToggleHeatmap
    \/ ReaderLoop
    \/ ModelLoad
    \/ WorkerLoop(AggregateDetections)

SpecAggregate == Init /\ [][NextAggregate]_vars

\* C30: between resets aggregate_frame_count never exceeds the number of
\* distinct video frames whose detections were added to the aggregate
\* accumulator: no frame is counted twice, also when the heatmap is toggled
\* while playback is paused and when restart_video has processed the first
\* frame before the reader reads it again.
C30_FramesCountedOnce ==
    app.aggregate_frame_count <= Cardinality(ghost.fed)
====
